---------------------------- MODULE Spec2Model ----------------------------
(***************************************************************************)
(* GitVaultManager (git-vault-manager.ts): the git-backed vault that every *)
(* MCP tool call goes through.  Each public method first awaits            *)
(* initialize() (clone when the vault directory is missing, otherwise      *)
(* fetch + reset --hard + clean -fdx, with delete-and-reclone on any       *)
(* error), then touches the working copy, and write-shaped methods end     *)
(* with commitAndPush -> pushWithRetry.                                    *)
(*                                                                         *)
(* Node runs the callers as promises on one event loop: a caller runs      *)
(* without interruption from one await to the next, and any other caller   *)
(* may run in between.  pc[c] names the awaited operation of caller c that *)
(* is in flight; the action for that pc value is its completion together   *)
(* with the synchronous code up to the next await.                         *)
(***************************************************************************)
EXTENDS Integers, Sequences, FiniteSets, TLC

\* ---- bounds of the model ----
NumCallers == 2
MaxCalls == 2
MaxContent == 2
MaxExternal == 1
MaxSegs == 3

\* ---- program constants ----
MaxAttempts == 3

Callers == 1..NumCallers
Paths == {"a.md", "b.md"}
Contents == 1..MaxContent
Absent == 0
\* What the working copy holds at a path that is a directory.
Dir == -1
\* The directory of the create-directory tool and its placeholder file.
DirPath == "d"
KeepPath == "d/.gitkeep"
AllPaths == Paths \cup {DirPath, KeepPath}
EmptyTree == [p \in AllPaths |-> Absent]
\* The branch tip of the remote when the server process starts.
InitTree == [p \in AllPaths |-> IF p = "a.md" THEN 1 ELSE Absent]

VARIABLES
  pc,          \* pc[c]: the awaited operation of caller c ("idle": no call)
  call,        \* call[c]: arguments and locals of the caller's current call
  result,      \* result[c]: how the caller's last finished call settled
  calls,       \* number of calls issued so far
  vaultExists, \* existsSync(config.vaultPath)
  isRepo,      \* the vault directory holds a git repository
  work,        \* files of the working copy
  index,       \* the git index
  ahead,       \* commits of the local branch that are not on the remote
  base,        \* number of remote commits the local branch is built on
  originVer,   \* the remote-tracking ref origin/<branch>, as a remote version
  remoteLog,   \* commits pushed to the remote branch, oldest first
  externals,   \* pushes made to the remote by other devices
  flight,      \* history: git commands issued by the calls of the current
               \* burst (the calls that overlap one refresh)
  authCodes,   \* the auth store's authorization codes
  accessTokens, \* the auth store's access tokens
  refreshTokens, \* the auth store's refresh tokens
  sessions,    \* the auth store's sessions
  now,         \* Date.now(), in milliseconds since the start
  mcpRoutes,   \* which copy of registerMcpRoute set up the app
  invocationCount, \* the counter of the Lambda cache module
  cleanups     \* history: calls of cleanupOldCache()

vars == <<pc, call, result, calls, vaultExists, isRepo, work, index, ahead,
          base, originVer, remoteLog, externals, flight, authCodes,
          accessTokens, refreshTokens, sessions, now, mcpRoutes,
          invocationCount, cleanups>>

serverVars == <<authCodes, accessTokens, refreshTokens, sessions, now,
                mcpRoutes, invocationCount, cleanups>>

repoVars == <<vaultExists, isRepo, work, index, ahead, base, originVer>>

\* ---- the repository ----
TreeAt(v) == IF v = 0 THEN InitTree ELSE remoteLog[v].tree
RemoteTree == TreeAt(Len(remoteLog))
HeadTree == IF ahead = <<>> THEN TreeAt(base) ELSE ahead[Len(ahead)].tree
RepoOK == vaultExists /\ isRepo
NonEmptyDir == vaultExists /\ (isRepo \/ work # EmptyTree)

\* The files a checkout of tree t puts in the working copy: git makes the
\* directory of every file and tracks no directory itself.
Checkout(t) == [t EXCEPT ![DirPath] = IF t[KeepPath] # Absent THEN Dir ELSE Absent]

InitPcs == {"clone", "config", "setUrl", "fetch", "reset", "clean", "rm"}
CommitPushPcs == {"add", "status", "commit", "pushUrl", "push", "backoff"}
PushPcs == {"pushUrl", "push", "backoff"}
IndexPcs == {"add", "commit", "reset"}

\* Another git process that takes index.lock is in flight.
LockContention(c) == \E d \in Callers \ {c} : pc[d] \in IndexPcs

\* The calls other than c's whose commitAndPush is in progress.
InCommitAndPush(c) == {call[d].id : d \in {e \in Callers \ {c} : pc[e] \in CommitPushPcs}}

Res(k, v) == [kind |-> k, val |-> v]
NoResult == Res("none", 0)

\* op: the method whose body runs; path, dest, val, recursive: its
\* arguments (dest is path except in moveFile); tool: the call is one of
\* handleCreateDirectory; note, overwrite: the call is one of handleCreateNote,
\* with its overwrite argument; attempt, delay: the loop variable of pushWithRetry and the delay of its
\* last setTimeout.  History of the call: id (its serial number), tries
\* (pushes issued), noop (the write left the file as it was), committed (its
\* git commit created a commit), recovering (its sync went to recovery),
\* before (the calls whose commitAndPush was in progress when this call's
\* commitAndPush began).
NoCall == [op |-> "none", path |-> "a.md", val |-> 0, attempt |-> 0, id |-> 0,
           tries |-> 0, noop |-> FALSE, committed |-> FALSE,
           recovering |-> FALSE, before |-> {}, dest |-> "a.md",
           tool |-> FALSE, recursive |-> TRUE, note |-> FALSE,
           overwrite |-> FALSE, delay |-> 0, move |-> FALSE, src |-> "a.md"]

\* affectedFiles of the call's commitAndPush.
Affected(c) == {call[c].path, call[c].dest}

NoFlight == [cold |-> FALSE, clone |-> 0, fetch |-> 0, reset |-> 0, clean |-> 0]

\* The server process has just started: the maps of the auth store are
\* empty and the invocation counter is 0.
ServerStart ==
  /\ authCodes = {}
  /\ accessTokens = {}
  /\ refreshTokens = {}
  /\ sessions = {}
  /\ now = 0
  /\ mcpRoutes = "first"
  /\ invocationCount = 0
  /\ cleanups = 0

\* The constructor only stores the config.  The vault directory is either
\* missing (first start) or a clean clone left by an earlier process.
Init ==
  /\ pc = [c \in Callers |-> "idle"]
  /\ call = [c \in Callers |-> NoCall]
  /\ result = [c \in Callers |-> NoResult]
  /\ calls = 0
  /\ vaultExists \in BOOLEAN
  /\ isRepo = vaultExists
  /\ work = (IF vaultExists THEN InitTree ELSE EmptyTree)
  /\ index = work
  /\ ahead = <<>>
  /\ base = 0
  /\ originVer = 0
  /\ remoteLog = <<>>
  /\ externals = 0
  /\ flight = NoFlight
  /\ ServerStart

\* ---- bookkeeping shared by the actions ----
Bump(f, k) == [f EXCEPT ![k] = @ + 1]

\* The burst ends when the last caller leaves initialize().
FlightLeft(c) ==
  IF \A d \in Callers \ {c} : pc[d] \notin InitPcs THEN NoFlight ELSE flight

\* The caller goes on to await l.
Goto(c, l) ==
  /\ pc' = [pc EXCEPT ![c] = l]
  /\ UNCHANGED <<result, calls>>

\* What a call that ends well returns: nothing for the methods of the
\* manager, the path (with the overwrite argument of the call as history)
\* for handleCreateNote.
Returned(c) ==
  IF call[c].note
  THEN [path |-> call[c].path, overwrite |-> call[c].overwrite]
  ELSE 0

\* The call ends: the promise of the public method settles with r.  In
\* handleMoveNote the deleteFile() of the destination that resolved is
\* followed by moveFile().
Finish(c, r) ==
  IF call[c].op = "deleteFile" /\ call[c].move /\ r.kind = "ok"
  THEN /\ pc' = [pc EXCEPT ![c] = "deleted"]
       /\ UNCHANGED <<result, call, calls>>
  ELSE /\ pc' = [pc EXCEPT ![c] = "idle"]
       /\ result' = [result EXCEPT ![c] = r]
       /\ call' = [call EXCEPT ![c] = NoCall]
       /\ UNCHANGED calls

\* First await of the method body, reached when initialize() has resolved.
BodyPc(o) ==
  CASE o = "readFile" -> "read"
    [] o = "writeFile" -> "mkdir"
    [] o = "deleteFile" -> "stats"
    [] o = "getFileStats" -> "stat"
    [] o = "moveFile" -> "mvmkdir"
    [] o = "createDirectory" -> "mkdirp"
    [] o = "fileExists" -> "exists"

\* Variant of Call that keeps the outcome of a completed refresh: after a
\* call of the caller that ended well, the next call skips initialize().
CallReusingRefresh(c, o, p, v) ==
  /\ pc[c] = "idle"
  /\ \A d \in Callers : d < c => pc[d] # "idle"
  /\ calls < MaxCalls
  /\ calls' = calls + 1
  /\ call' = [call EXCEPT ![c] = [NoCall EXCEPT !.op = o, !.path = p,
                                                !.val = v, !.id = calls + 1,
                                                !.dest = p]]
  /\ UNCHANGED result
  /\ IF result[c].kind = "ok"
     THEN /\ pc' = [pc EXCEPT ![c] = BodyPc(o)]
          /\ flight' = flight
     ELSE IF vaultExists
          THEN /\ pc' = [pc EXCEPT ![c] = "setUrl"]
               /\ flight' = flight
          ELSE /\ pc' = [pc EXCEPT ![c] = "clone"]
               /\ flight' = Bump(flight, "clone")
  /\ UNCHANGED <<repoVars, remoteLog, externals, serverVars>>

\* initialize(): existsSync decides between cloneVault and syncVault; both
\* run synchronously up to their first git command.  Callers are anonymous
\* promises: a new call takes the lowest free slot.
Call(c, o, p, v) ==
  /\ pc[c] = "idle"
  /\ \A d \in Callers : d < c => pc[d] # "idle"
  /\ calls < MaxCalls
  /\ calls' = calls + 1
  /\ call' = [call EXCEPT ![c] = [NoCall EXCEPT !.op = o, !.path = p,
                                                !.val = v, !.id = calls + 1,
                                                !.dest = p]]
  /\ UNCHANGED result
  /\ LET f0 == IF \E d \in Callers : pc[d] \in InitPcs
               THEN flight
               ELSE [NoFlight EXCEPT !.cold = ~vaultExists]
     IN IF vaultExists
        THEN /\ pc' = [pc EXCEPT ![c] = "setUrl"]
             /\ flight' = f0
        ELSE /\ pc' = [pc EXCEPT ![c] = "clone"]
             /\ flight' = Bump(f0, "clone")
  /\ UNCHANGED <<repoVars, remoteLog, externals, serverVars>>

\* cloneVault(): git clone --depth 1 --branch <branch> --single-branch.
\* git refuses a destination that exists and is not empty; otherwise the
\* working copy, index and branch are those of the remote tip.
CloneOk(c) ==
  /\ pc[c] = "clone"
  /\ ~NonEmptyDir
  /\ vaultExists' = TRUE
  /\ isRepo' = TRUE
  /\ work' = Checkout(RemoteTree)
  /\ index' = RemoteTree
  /\ ahead' = <<>>
  /\ base' = Len(remoteLog)
  /\ originVer' = Len(remoteLog)
  /\ Goto(c, "config")
  /\ UNCHANGED <<call, remoteLog, externals, flight,
                 serverVars>>

\* Variant of CloneFail with the rejection swallowed: initialize() resolves
\* and the method body runs.
CloneFailSwallowed(c) ==
  /\ pc[c] = "clone"
  /\ Goto(c, BodyPc(call[c].op))
  /\ flight' = FlightLeft(c)
  /\ UNCHANGED <<call, repoVars, remoteLog, externals, serverVars>>

\* Variant of CloneFail in which the failed clone leaves its directory
\* behind.
CloneFailLeavesDir(c) ==
  /\ pc[c] = "clone"
  /\ vaultExists' = TRUE
  /\ Finish(c, Res("SyncFailure", IF call[c].recovering THEN 1 ELSE 0))
  /\ flight' = FlightLeft(c)
  /\ UNCHANGED <<isRepo, work, index, ahead, base, originVer, remoteLog,
                 externals, serverVars>>

\* The clone rejects (network, credentials, or the destination exists):
\* nothing catches it, so initialize() and the public method reject.  The
\* result records (history) whether the clone was that of a recovery.
CloneFail(c) ==
  /\ pc[c] = "clone"
  /\ Finish(c, Res("SyncFailure", IF call[c].recovering THEN 1 ELSE 0))
  /\ flight' = FlightLeft(c)
  /\ UNCHANGED <<repoVars, remoteLog, externals, serverVars>>

\* cloneVault(): addConfig user.name and user.email on the fresh clone; then
\* initialize() resolves.
ConfigDone(c) ==
  /\ pc[c] = "config"
  /\ IF RepoOK
     THEN /\ Goto(c, BodyPc(call[c].op))
          /\ UNCHANGED call
     ELSE Finish(c, Res("SyncFailure", 0))
  /\ flight' = FlightLeft(c)
  /\ UNCHANGED <<repoVars, remoteLog, externals, serverVars>>

\* syncVault(), catch block: removeVault() then cloneVault().  removeVault
\* checks existsSync before fs.rm, so a missing directory goes straight to
\* the clone.
Recover(c) ==
  /\ call' = [call EXCEPT ![c].recovering = TRUE]
  /\ IF vaultExists
     THEN /\ Goto(c, "rm")
          /\ flight' = flight
     ELSE /\ Goto(c, "clone")
          /\ flight' = Bump(flight, "clone")
  /\ UNCHANGED <<repoVars, remoteLog, externals, serverVars>>

\* syncVault(): git remote set-url origin <authUrl>, then the fetch is issued.
SetUrlDone(c) ==
  /\ pc[c] = "setUrl"
  /\ RepoOK
  /\ Goto(c, "fetch")
  /\ flight' = Bump(flight, "fetch")
  /\ UNCHANGED <<call, repoVars, remoteLog, externals, serverVars>>

SetUrlFail(c) ==
  /\ pc[c] = "setUrl"
  /\ ~RepoOK
  /\ Recover(c)

\* Variant of FetchOk that goes on with the clean, without the reset.
FetchOkSkipsReset(c) ==
  /\ pc[c] = "fetch"
  /\ RepoOK
  /\ originVer' = Len(remoteLog)
  /\ Goto(c, "clean")
  /\ flight' = Bump(flight, "clean")
  /\ UNCHANGED <<call, vaultExists, isRepo, work, index, ahead, base,
                 remoteLog, externals, serverVars>>

\* syncVault(): git fetch origin <branch> won the race against the timer;
\* then the reset is issued.
FetchOk(c) ==
  /\ pc[c] = "fetch"
  /\ RepoOK
  /\ originVer' = Len(remoteLog)
  /\ Goto(c, "reset")
  /\ flight' = Bump(flight, "reset")
  /\ UNCHANGED <<call, vaultExists, isRepo, work, index, ahead, base,
                 remoteLog, externals, serverVars>>

\* The fetch rejects (network, credentials, no repository).
FetchFail(c) ==
  /\ pc[c] = "fetch"
  /\ Recover(c)

\* The 5000 ms timer of Promise.race rejects first ('Fetch timeout').
FetchTimeout(c) ==
  /\ pc[c] = "fetch"
  /\ RepoOK
  /\ Recover(c)

\* syncVault(): git reset --hard origin/<branch>: branch, index and every
\* tracked file become those of origin/<branch>; untracked files stay.  A
\* directory is made for a file checked out in it and removed when the
\* removal of a tracked file leaves it empty.  Then the clean is issued.
ResetDone(c) ==
  /\ pc[c] = "reset"
  /\ RepoOK
  /\ LET t == TreeAt(originVer)
         Tracked(p) == index[p] # Absent \/ HeadTree[p] # Absent \/ t[p] # Absent
         w == [p \in AllPaths |-> IF Tracked(p) THEN t[p] ELSE work[p]]
     IN /\ work' = [w EXCEPT ![DirPath] =
                      IF w[KeepPath] # Absent THEN Dir
                      ELSE IF Tracked(KeepPath) THEN Absent ELSE work[DirPath]]
        /\ index' = t
  /\ ahead' = <<>>
  /\ base' = originVer
  /\ Goto(c, "clean")
  /\ flight' = Bump(flight, "clean")
  /\ UNCHANGED <<call, vaultExists, isRepo, originVer, remoteLog, externals, serverVars>>

\* The reset rejects: no repository, or index.lock is held by another git.
ResetFail(c) ==
  /\ pc[c] = "reset"
  /\ ~RepoOK \/ LockContention(c)
  /\ Recover(c)

\* syncVault(): git clean -fdx removes every file that is not in the index
\* and every directory that holds no file of the index; then initialize()
\* resolves.
CleanDone(c) ==
  /\ pc[c] = "clean"
  /\ RepoOK
  /\ work' = [p \in AllPaths |->
                IF index[IF p = DirPath THEN KeepPath ELSE p] = Absent
                THEN Absent ELSE work[p]]
  /\ Goto(c, BodyPc(call[c].op))
  /\ flight' = FlightLeft(c)
  /\ UNCHANGED <<call, vaultExists, isRepo, index, ahead, base, originVer,
                 remoteLog, externals, serverVars>>

CleanFail(c) ==
  /\ pc[c] = "clean"
  /\ ~RepoOK
  /\ Recover(c)

\* Variant of RemoveDone that deletes the .git directory and leaves the
\* files of the working copy.
RemoveKeepsFiles(c) ==
  /\ pc[c] = "rm"
  /\ isRepo' = FALSE
  /\ index' = EmptyTree
  /\ ahead' = <<>>
  /\ base' = 0
  /\ originVer' = 0
  /\ Goto(c, "clone")
  /\ flight' = Bump(flight, "clone")
  /\ UNCHANGED <<call, vaultExists, work, remoteLog, externals, serverVars>>

\* removeVault(): fs.rm(vaultPath, {recursive, force}); then the clone is
\* issued.
RemoveDone(c) ==
  /\ pc[c] = "rm"
  /\ vaultExists' = FALSE
  /\ isRepo' = FALSE
  /\ work' = EmptyTree
  /\ index' = EmptyTree
  /\ ahead' = <<>>
  /\ base' = 0
  /\ originVer' = 0
  /\ Goto(c, "clone")
  /\ flight' = Bump(flight, "clone")
  /\ UNCHANGED <<call, remoteLog, externals, serverVars>>

\* ---- the method bodies ----

\* readFile(): fs.readFile(fullPath); any error is rethrown as 'Failed to
\* read file'.
ReadDone(c) ==
  /\ pc[c] = "read"
  /\ IF vaultExists /\ work[call[c].path] # Absent
     THEN Finish(c, Res("ok", work[call[c].path]))
     ELSE Finish(c, Res("ReadError", 0))
  /\ UNCHANGED <<repoVars, remoteLog, externals, flight,
                 serverVars>>

\* writeFile(): fs.mkdir(dirname(fullPath), {recursive: true}); for a file at
\* the top of the vault this creates the vault directory when it is missing.
MkdirDone(c) ==
  /\ pc[c] = "mkdir"
  /\ vaultExists' = TRUE
  /\ work' = IF call[c].path = KeepPath THEN [work EXCEPT ![DirPath] = Dir]
             ELSE work
  /\ Goto(c, "write")
  /\ UNCHANGED <<call, isRepo, index, ahead, base, originVer,
                 remoteLog, externals, flight,
                 serverVars>>

\* writeFile(): fs.writeFile(fullPath, content); then commitAndPush() runs
\* up to its git add.
WriteDone(c) ==
  /\ pc[c] = "write"
  /\ vaultExists
  /\ call[c].path = KeepPath => work[DirPath] = Dir
  /\ work' = [work EXCEPT ![call[c].path] = call[c].val]
  /\ call' = [call EXCEPT ![c].noop = (work[call[c].path] = call[c].val),
                          ![c].before = InCommitAndPush(c)]
  /\ Goto(c, "add")
  /\ UNCHANGED <<vaultExists, isRepo, index, ahead, base, originVer,
                 remoteLog, externals, flight,
                 serverVars>>

\* fs.writeFile rejects with ENOENT: the directory was removed after mkdir.
WriteFail(c) ==
  /\ pc[c] = "write"
  /\ ~vaultExists \/ (call[c].path = KeepPath /\ work[DirPath] # Dir)
  /\ Finish(c, Res("FsError", 0))
  /\ UNCHANGED <<repoVars, remoteLog, externals, flight,
                 serverVars>>

\* commitAndPush(): git add -A <affectedFiles> stages every path as it is in
\* the working copy (content or deletion); then git status is issued.
AddDone(c) ==
  /\ pc[c] = "add"
  /\ RepoOK
  /\ \A p \in Affected(c) : ~(work[p] = Absent /\ index[p] = Absent)
  /\ index' = [p \in AllPaths |-> IF p \in Affected(c) THEN work[p] ELSE index[p]]
  /\ Goto(c, "status")
  /\ UNCHANGED <<call, vaultExists, isRepo, work, ahead, base, originVer,
                 remoteLog, externals, flight,
                 serverVars>>

\* git add rejects: no repository, a pathspec matches nothing, or
\* index.lock is held by another git.
AddFail(c) ==
  /\ pc[c] = "add"
  /\ \/ ~RepoOK
     \/ \E p \in Affected(c) : work[p] = Absent /\ index[p] = Absent
     \/ LockContention(c)
  /\ Finish(c, Res("GitError", 0))
  /\ UNCHANGED <<repoVars, remoteLog, externals, flight,
                 serverVars>>

\* status().files: every file that differs between HEAD and the index or
\* between the index and the working copy (untracked files included; an
\* empty directory is not reported).
StatusFiles ==
  {p \in AllPaths \ {DirPath} : index[p] # HeadTree[p] \/ work[p] # index[p]}

\* commitAndPush(): git status; no files means 'No changes to commit' and
\* the method returns, otherwise git commit is issued.
StatusDone(c) ==
  /\ pc[c] = "status"
  /\ RepoOK
  /\ IF StatusFiles = {}
     THEN Finish(c, Res("ok", Returned(c)))
     ELSE /\ Goto(c, "commit")
          /\ UNCHANGED call
  /\ UNCHANGED <<repoVars, remoteLog, externals, flight,
                 serverVars>>

StatusFail(c) ==
  /\ pc[c] = "status"
  /\ ~RepoOK
  /\ Finish(c, Res("GitError", 0))
  /\ UNCHANGED <<repoVars, remoteLog, externals, flight,
                 serverVars>>

\* The commit git makes of the index: the call whose commitAndPush made it,
\* the paths that call passed as affectedFiles, the paths the commit
\* changes, its tree, and (history) whether its call gave up pushing it and
\* which calls' commitAndPush began before and overlapped that of its call.
NewCommit(c) ==
  [by |-> call[c].id, target |-> Affected(c),
   paths |-> {p \in AllPaths : index[p] # HeadTree[p]}, tree |-> index,
   failed |-> FALSE, before |-> call[c].before]

\* commitAndPush(): git commit -m <message> commits the whole index; then
\* pushWithRetry(vaultGit, 3) runs up to its first set-url.  With nothing
\* staged git prints 'nothing to commit' on stdout and creates no commit,
\* which simple-git does not report as an error.
CommitDone(c) ==
  /\ pc[c] = "commit"
  /\ RepoOK
  /\ ahead' = IF index # HeadTree THEN Append(ahead, NewCommit(c)) ELSE ahead
  /\ call' = [call EXCEPT ![c].attempt = 1,
                          ![c].committed = (index # HeadTree)]
  /\ Goto(c, "pushUrl")
  /\ UNCHANGED <<vaultExists, isRepo, work, index, base, originVer,
                 remoteLog, externals, flight,
                 serverVars>>

\* git commit rejects: no repository, or index.lock is held by another git.
CommitFail(c) ==
  /\ pc[c] = "commit"
  /\ ~RepoOK \/ LockContention(c)
  /\ Finish(c, Res("GitError", 0))
  /\ UNCHANGED <<repoVars, remoteLog, externals, flight,
                 serverVars>>

\* Variant of AttemptFailed with the loop bound off by one (attempt <=
\* maxAttempts + 1).
AttemptFailedOneMore(c) ==
  /\ IF call[c].attempt = MaxAttempts + 1
     THEN /\ Finish(c, Res("PushFailure", 0))
          /\ ahead' = [i \in 1..Len(ahead) |->
                         IF ahead[i].by = call[c].id
                         THEN [ahead[i] EXCEPT !.failed = TRUE] ELSE ahead[i]]
     ELSE /\ Goto(c, "backoff")
          /\ call' = [call EXCEPT ![c].delay = (2 ^ call[c].attempt) * 1000]
          /\ UNCHANGED ahead
  /\ UNCHANGED <<vaultExists, isRepo, work, index, base, originVer,
                 remoteLog, externals, flight,
                 serverVars>>

\* Variant of AttemptFailed with a delay that grows by 1000 ms per attempt.
AttemptFailedLinear(c) ==
  /\ IF call[c].attempt = MaxAttempts
     THEN /\ Finish(c, Res("PushFailure", 0))
          /\ ahead' = [i \in 1..Len(ahead) |->
                         IF ahead[i].by = call[c].id
                         THEN [ahead[i] EXCEPT !.failed = TRUE] ELSE ahead[i]]
     ELSE /\ Goto(c, "backoff")
          /\ call' = [call EXCEPT ![c].delay = (call[c].attempt + 1) * 1000]
          /\ UNCHANGED ahead
  /\ UNCHANGED <<vaultExists, isRepo, work, index, base, originVer,
                 remoteLog, externals, flight,
                 serverVars>>

\* pushWithRetry(), catch block: the last attempt throws 'Failed to push
\* after 3 attempts', any earlier one sleeps 2^attempt * 1000 ms.
AttemptFailed(c) ==
  /\ IF call[c].attempt = MaxAttempts
     THEN /\ Finish(c, Res("PushFailure", 0))
          /\ ahead' = [i \in 1..Len(ahead) |->
                         IF ahead[i].by = call[c].id
                         THEN [ahead[i] EXCEPT !.failed = TRUE] ELSE ahead[i]]
     ELSE /\ Goto(c, "backoff")
          /\ call' = [call EXCEPT ![c].delay = (2 ^ call[c].attempt) * 1000]
          /\ UNCHANGED ahead
  /\ UNCHANGED <<vaultExists, isRepo, work, index, base, originVer,
                 remoteLog, externals, flight,
                 serverVars>>

\* Variant of BackoffDone that pushes again at once, without the set-url.
BackoffDoneNoSetUrl(c) ==
  /\ pc[c] = "backoff"
  /\ call' = [call EXCEPT ![c].attempt = @ + 1]
  /\ Goto(c, "push")
  /\ UNCHANGED <<repoVars, remoteLog, externals, flight,
                 serverVars>>

\* pushWithRetry(): git remote set-url origin <authUrl>, then the push is
\* issued.
PushUrlDone(c) ==
  /\ pc[c] = "pushUrl"
  /\ RepoOK
  /\ call' = [call EXCEPT ![c].tries = @ + 1]
  /\ Goto(c, "push")
  /\ UNCHANGED <<repoVars, remoteLog, externals, flight,
                 serverVars>>

PushUrlFail(c) ==
  /\ pc[c] = "pushUrl"
  /\ ~RepoOK
  /\ AttemptFailed(c)

\* pushWithRetry(): git push origin <branch> is accepted when the local
\* branch contains the remote tip; the remote then has every local commit.
PushOk(c) ==
  /\ pc[c] = "push"
  /\ RepoOK
  /\ base = Len(remoteLog)
  /\ remoteLog' = remoteLog \o ahead
  /\ ahead' = <<>>
  /\ base' = Len(remoteLog) + Len(ahead)
  /\ originVer' = Len(remoteLog) + Len(ahead)
  /\ Finish(c, Res("ok", Returned(c)))
  /\ UNCHANGED <<vaultExists, isRepo, work, index, externals, flight,
                 serverVars>>

\* The push rejects: network, credentials, no repository, or the remote
\* has commits the local branch lacks (non-fast-forward).
PushFail(c) ==
  /\ pc[c] = "push"
  /\ AttemptFailed(c)

\* pushWithRetry(): the backoff timer fires and the loop goes on.
BackoffDone(c) ==
  /\ pc[c] = "backoff"
  /\ call' = [call EXCEPT ![c].attempt = @ + 1]
  /\ Goto(c, "pushUrl")
  /\ UNCHANGED <<repoVars, remoteLog, externals, flight,
                 serverVars>>

\* ---- the environment ----

\* Another device (an Obsidian client with obsidian-git) pushes a commit
\* that changes one file of the remote branch.
ExternalPush(p, v) ==
  /\ externals < MaxExternal
  /\ v # RemoteTree[p]
  /\ remoteLog' = Append(remoteLog,
        [by |-> 0, target |-> {p}, paths |-> {p},
         tree |-> [RemoteTree EXCEPT ![p] = v], failed |-> FALSE,
         before |-> {}])
  /\ externals' = externals + 1
  /\ UNCHANGED <<pc, call, result, calls, repoVars, flight, serverVars>>

Next ==
  \/ \E c \in Callers, p \in Paths : Call(c, "readFile", p, 0)
  \/ \E c \in Callers, p \in Paths, v \in Contents : Call(c, "writeFile", p, v)
  \/ \E c \in Callers :
       \/ CloneOk(c) \/ CloneFail(c) \/ ConfigDone(c)
       \/ SetUrlDone(c) \/ SetUrlFail(c)
       \/ FetchOk(c) \/ FetchFail(c) \/ FetchTimeout(c)
       \/ ResetDone(c) \/ ResetFail(c)
       \/ CleanDone(c) \/ CleanFail(c)
       \/ RemoveDone(c)
       \/ ReadDone(c)
       \/ MkdirDone(c) \/ WriteDone(c) \/ WriteFail(c)
       \/ AddDone(c) \/ AddFail(c)
       \/ StatusDone(c) \/ StatusFail(c)
       \/ CommitDone(c) \/ CommitFail(c)
       \/ PushUrlDone(c) \/ PushUrlFail(c)
       \/ PushOk(c) \/ PushFail(c)
       \/ BackoffDone(c)
  \/ \E p \in Paths, v \in Contents : ExternalPush(p, v)

Spec == Init /\ [][Next]_vars

\* ---- deleteFile, moveFile, createDirectory ----

\* The burst a starting initialize() belongs to.
FlightJoin ==
  IF \E d \in Callers : pc[d] \in InitPcs
  THEN flight ELSE [NoFlight EXCEPT !.cold = ~vaultExists]

\* initialize() as in Call, for the methods with more arguments: q is the
\* destination of moveFile, t says that handleCreateDirectory makes the call,
\* r is the recursive flag of createDirectory.
CallOp(c, o, p, q, t, r) ==
  /\ pc[c] = "idle"
  /\ \A d \in Callers : d < c => pc[d] # "idle"
  /\ calls < MaxCalls
  /\ calls' = calls + 1
  /\ call' = [call EXCEPT ![c] = [NoCall EXCEPT !.op = o, !.path = p,
                                                !.dest = q, !.tool = t,
                                                !.recursive = r,
                                                !.id = calls + 1]]
  /\ UNCHANGED result
  /\ IF vaultExists
     THEN /\ pc' = [pc EXCEPT ![c] = "setUrl"]
          /\ flight' = FlightJoin
     ELSE /\ pc' = [pc EXCEPT ![c] = "clone"]
          /\ flight' = Bump(FlightJoin, "clone")
  /\ UNCHANGED <<repoVars, remoteLog, externals, serverVars>>

\* deleteFile(): getFileStats(relativePath) is called, and it awaits
\* initialize() once more.
StatsInit(c) ==
  /\ pc[c] = "stats"
  /\ call' = [call EXCEPT ![c].op = "getFileStats"]
  /\ IF vaultExists
     THEN /\ pc' = [pc EXCEPT ![c] = "setUrl"]
          /\ flight' = FlightJoin
     ELSE /\ pc' = [pc EXCEPT ![c] = "clone"]
          /\ flight' = Bump(FlightJoin, "clone")
  /\ UNCHANGED <<result, calls, repoVars, remoteLog, externals, serverVars>>

\* Variant of StatDone without the isDirectory test of deleteFile().
StatDoneNoDirTest(c) ==
  /\ pc[c] = "stat"
  /\ IF vaultExists /\ work[call[c].path] # Absent
     THEN /\ Goto(c, "unlink")
          /\ call' = [call EXCEPT ![c].op = "deleteFile"]
     ELSE Finish(c, Res("FsError", 0))
  /\ UNCHANGED <<repoVars, remoteLog, externals, flight,
                 serverVars>>

\* getFileStats(): fs.stat(fullPath); deleteFile() throws for a directory and
\* otherwise issues the unlink.  Every error is rethrown as 'Failed to delete
\* file'.
StatDone(c) ==
  /\ pc[c] = "stat"
  /\ IF vaultExists /\ work[call[c].path] = Dir
     THEN Finish(c, Res("IsDirectory", 0))
     ELSE IF vaultExists /\ work[call[c].path] # Absent
          THEN /\ Goto(c, "unlink")
               /\ call' = [call EXCEPT ![c].op = "deleteFile"]
          ELSE Finish(c, Res("FsError", 0))
  /\ UNCHANGED <<repoVars, remoteLog, externals, flight,
                 serverVars>>

\* deleteFile(): fs.unlink(fullPath); then commitAndPush() runs up to its
\* git add.
UnlinkDone(c) ==
  /\ pc[c] = "unlink"
  /\ vaultExists /\ work[call[c].path] \notin {Absent, Dir}
  /\ work' = [work EXCEPT ![call[c].path] = Absent]
  /\ call' = [call EXCEPT ![c].before = InCommitAndPush(c)]
  /\ Goto(c, "add")
  /\ UNCHANGED <<vaultExists, isRepo, index, ahead, base, originVer,
                 remoteLog, externals, flight,
                 serverVars>>

\* fs.unlink rejects: the file is gone.
UnlinkFail(c) ==
  /\ pc[c] = "unlink"
  /\ ~(vaultExists /\ work[call[c].path] \notin {Absent, Dir})
  /\ Finish(c, Res("FsError", 0))
  /\ UNCHANGED <<repoVars, remoteLog, externals, flight,
                 serverVars>>

\* moveFile(): fs.mkdir(dirname(fullDestPath), {recursive: true}).
MoveMkdirDone(c) ==
  /\ pc[c] = "mvmkdir"
  /\ vaultExists' = TRUE
  /\ Goto(c, "rename")
  /\ UNCHANGED <<call, isRepo, work, index, ahead, base, originVer,
                 remoteLog, externals, flight,
                 serverVars>>

\* Variant of RenameDone with the rename not awaited: commitAndPush() starts
\* while the file is still at the source.
RenameNotAwaited(c) ==
  /\ pc[c] = "rename"
  /\ call' = [call EXCEPT ![c].before = InCommitAndPush(c)]
  /\ Goto(c, "add")
  /\ UNCHANGED <<repoVars, remoteLog, externals, flight,
                 serverVars>>

\* moveFile(): fs.rename(fullSourcePath, fullDestPath) replaces the
\* destination; then commitAndPush() runs up to its git add.
RenameDone(c) ==
  /\ pc[c] = "rename"
  /\ vaultExists /\ work[call[c].path] \notin {Absent, Dir}
  /\ work' = [work EXCEPT ![call[c].dest] = work[call[c].path],
                          ![call[c].path] = Absent]
  /\ call' = [call EXCEPT ![c].before = InCommitAndPush(c)]
  /\ Goto(c, "add")
  /\ UNCHANGED <<vaultExists, isRepo, index, ahead, base, originVer,
                 remoteLog, externals, flight,
                 serverVars>>

\* fs.rename rejects: the source is gone.
RenameFail(c) ==
  /\ pc[c] = "rename"
  /\ ~(vaultExists /\ work[call[c].path] \notin {Absent, Dir})
  /\ Finish(c, Res("FsError", 0))
  /\ UNCHANGED <<repoVars, remoteLog, externals, flight,
                 serverVars>>

\* createDirectory(): fs.mkdir(fullPath, {recursive}).  With recursive the
\* missing parents are made and an existing directory is accepted.  In
\* handleCreateDirectory the call goes on with writeFile(path + '/.gitkeep',
\* ''), which starts with initialize().
CreateDirDone(c) ==
  /\ pc[c] = "mkdirp"
  /\ IF call[c].recursive THEN TRUE
     ELSE vaultExists /\ work[call[c].path] = Absent
  /\ vaultExists' = TRUE
  /\ work' = [work EXCEPT ![call[c].path] = Dir]
  /\ IF call[c].tool
     THEN /\ call' = [call EXCEPT ![c].op = "writeFile", ![c].path = KeepPath,
                                  ![c].dest = KeepPath, ![c].val = 1]
          /\ pc' = [pc EXCEPT ![c] = "setUrl"]
          /\ flight' = IF \E d \in Callers : pc[d] \in InitPcs
                       THEN flight ELSE NoFlight
          /\ UNCHANGED <<result, calls>>
     ELSE /\ Finish(c, Res("ok", 0))
          /\ flight' = flight
  /\ UNCHANGED <<isRepo, index, ahead, base, originVer, remoteLog, externals, serverVars>>

\* fs.mkdir without recursive rejects: the parent is missing or the path
\* exists.
CreateDirFail(c) ==
  /\ pc[c] = "mkdirp"
  /\ ~call[c].recursive
  /\ ~(vaultExists /\ work[call[c].path] = Absent)
  /\ Finish(c, Res("FsError", 0))
  /\ UNCHANGED <<repoVars, remoteLog, externals, flight,
                 serverVars>>

\* The calls of deleteFile, moveFile, createDirectory and the
\* create-directory tool.
NextOps ==
  \/ \E c \in Callers, p \in {"a.md", DirPath} :
       CallOp(c, "deleteFile", p, p, FALSE, TRUE)
  \/ \E c \in Callers : CallOp(c, "moveFile", "a.md", "b.md", FALSE, TRUE)
  \/ \E c \in Callers, t \in BOOLEAN, r \in BOOLEAN :
       CallOp(c, "createDirectory", DirPath, DirPath, t, r)
  \/ \E c \in Callers :
       \/ CloneOk(c) \/ CloneFail(c) \/ ConfigDone(c)
       \/ SetUrlDone(c) \/ SetUrlFail(c)
       \/ FetchOk(c) \/ FetchFail(c) \/ FetchTimeout(c)
       \/ ResetDone(c) \/ ResetFail(c)
       \/ CleanDone(c) \/ CleanFail(c)
       \/ RemoveDone(c)
       \/ StatsInit(c) \/ StatDone(c) \/ UnlinkDone(c) \/ UnlinkFail(c)
       \/ MoveMkdirDone(c) \/ RenameDone(c) \/ RenameFail(c)
       \/ CreateDirDone(c) \/ CreateDirFail(c)
       \/ MkdirDone(c) \/ WriteDone(c) \/ WriteFail(c)
       \/ AddDone(c) \/ AddFail(c)
       \/ StatusDone(c) \/ StatusFail(c)
       \/ CommitDone(c) \/ CommitFail(c)
       \/ PushUrlDone(c) \/ PushUrlFail(c)
       \/ PushOk(c) \/ PushFail(c)
       \/ BackoffDone(c)

SpecOps == Init /\ [][NextOps]_vars

\* ---- readFile calls under the scheduling of Node ----

NextRead ==
  \/ \E c \in Callers, p \in Paths : Call(c, "readFile", p, 0)
  \/ \E c \in Callers :
       \/ CloneOk(c) \/ CloneFail(c) \/ ConfigDone(c)
       \/ SetUrlDone(c) \/ SetUrlFail(c)
       \/ FetchOk(c) \/ FetchFail(c) \/ FetchTimeout(c)
       \/ ResetDone(c) \/ ResetFail(c)
       \/ CleanDone(c) \/ CleanFail(c)
       \/ RemoveDone(c)
       \/ ReadDone(c)
  \/ \E p \in Paths, v \in Contents : ExternalPush(p, v)

\* What the event loop guarantees: the race of the fetch against its timer
\* settles, and the commands that work on the local disk (set-url, reset,
\* clean, fs.rm, addConfig, fs.readFile) complete.  git clone talks to the
\* network and has no timer: nothing makes it complete.
FairRead ==
  \A c \in Callers :
    /\ WF_vars(FetchOk(c) \/ FetchFail(c) \/ FetchTimeout(c))
    /\ WF_vars(SetUrlDone(c) \/ SetUrlFail(c))
    /\ WF_vars(ResetDone(c) \/ ResetFail(c))
    /\ WF_vars(CleanDone(c) \/ CleanFail(c))
    /\ WF_vars(RemoveDone(c))
    /\ WF_vars(ConfigDone(c))
    /\ WF_vars(ReadDone(c))

SpecRead == Init /\ [][NextRead]_vars /\ FairRead

\* ---- path.join(config.vaultPath, relativePath) ----

\* A path is the sequence of its segments; the vault is at /srv/vault.
VaultPath == <<"srv", "vault">>
Segments == {"..", ".", "sub", "n.md"}
RelPaths == UNION {[1..n -> Segments] : n \in 1..MaxSegs}

\* path.normalize of an absolute path: '.' is dropped, '..' drops the
\* segment before it and is dropped itself at the root.
RECURSIVE Normalize(_, _)
Normalize(stack, segs) ==
  IF segs = <<>> THEN stack
  ELSE LET h == Head(segs)
       IN Normalize(IF h = "." THEN stack
                    ELSE IF h = ".."
                         THEN (IF stack = <<>> THEN <<>>
                               ELSE SubSeq(stack, 1, Len(stack) - 1))
                         ELSE Append(stack, h),
                    Tail(segs))

Join(a, b) == Normalize(<<>>, a \o b)

\* The path is the working-copy root or below it.
InsideRoot(full) ==
  Len(full) >= Len(VaultPath) /\ SubSeq(full, 1, Len(VaultPath)) = VaultPath

\* readFile(relativePath): initialize() starts its network commands.
PathCall(c, rel) ==
  /\ pc[c] = "idle"
  /\ \A d \in Callers : d < c => pc[d] # "idle"
  /\ calls < MaxCalls
  /\ calls' = calls + 1
  /\ call' = [call EXCEPT ![c] = [NoCall EXCEPT !.op = "readFile", !.path = rel,
                                                !.id = calls + 1]]
  /\ pc' = [pc EXCEPT ![c] = "initialize"]
  /\ UNCHANGED <<result, repoVars, remoteLog, externals, flight,
                 serverVars>>

\* initialize() has resolved; fs.readFile(path.join(vaultPath, relativePath))
\* is issued.
PathInitDone(c) ==
  /\ pc[c] = "initialize"
  /\ Goto(c, "readFile")
  /\ UNCHANGED <<call, repoVars, remoteLog, externals, flight,
                 serverVars>>

\* fs.readFile resolves with the content of the file at the joined path;
\* the result records (history) the path that was read.
PathReadOk(c) ==
  /\ pc[c] = "readFile"
  /\ Finish(c, Res("ok", Join(VaultPath, call[c].path)))
  /\ UNCHANGED <<repoVars, remoteLog, externals, flight,
                 serverVars>>

\* fs.readFile rejects: there is no file at the joined path.
PathReadFail(c) ==
  /\ pc[c] = "readFile"
  /\ Finish(c, Res("ReadError", Join(VaultPath, call[c].path)))
  /\ UNCHANGED <<repoVars, remoteLog, externals, flight,
                 serverVars>>

NextPath ==
  \/ \E c \in Callers, rel \in RelPaths : PathCall(c, rel)
  \/ \E c \in Callers : PathInitDone(c) \/ PathReadOk(c) \/ PathReadFail(c)

SpecPath == Init /\ [][NextPath]_vars

\* ---- listFiles and walkDirectory ----

\* The files that the vault directory may hold, each the sequence of its
\* segments below the vault; the directories are the proper prefixes of the
\* files.  In SpecList the variable work is the set of the files present.
FileUniverse ==
  {<<"n.md">>, <<"x.png">>, <<"sub", "m.md">>, <<"sub", "deep", "k.md">>,
   <<".obsidian", "app.json">>, <<"sub", ".git", "HEAD">>}
ListDirs == {<<>>, <<"sub">>, <<".obsidian">>, <<"none">>}
FileTypeLists == {<<>>, <<"md">>}

IsPrefix(a, b) == Len(a) <= Len(b) /\ SubSeq(b, 1, Len(a)) = a
IsDirectory(fs, d) == \E f \in fs : IsPrefix(d, f) /\ d # f

\* fs.readdir(dir): the names of the entries of dir.
ReadDir(fs, dir) ==
  {f[Len(dir) + 1] : f \in {g \in fs : IsPrefix(dir, g) /\ g # dir}}

\* path.extname(name).substring(1): what follows the last dot of the name,
\* none when the only dot starts the name.
ExtName(name) ==
  CASE name \in {"n.md", "m.md", "k.md"} -> "md"
    [] name = "x.png" -> "png"
    [] name = "app.json" -> "json"
    [] OTHER -> ""

InList(x, l) == \E i \in 1..Len(l) : l[i] = x

\* walkDirectory(dir, basePath, files, options): the relative paths pushed
\* to files by the walk of dir.
RECURSIVE WalkDirectory(_, _, _)
WalkDirectory(fs, dir, options) ==
  UNION {
    IF name = ".git" \/ name = ".obsidian" THEN {}
    ELSE LET relativePath == Append(dir, name)
         IN IF IsDirectory(fs, relativePath)
            THEN (IF options.includeDirectories THEN {relativePath} ELSE {})
                 \cup (IF options.recursive # "false"
                       THEN WalkDirectory(fs, relativePath, options) ELSE {})
            ELSE IF Len(options.fileTypes) > 0
                    /\ ~InList(ExtName(name), options.fileTypes)
                 THEN {}
                 ELSE {relativePath}
    : name \in ReadDir(fs, dir)}

\* The vault directory holds some files of the universe.
InitList ==
  /\ pc = [c \in Callers |-> "idle"]
  /\ call = [c \in Callers |-> NoCall]
  /\ result = [c \in Callers |-> NoResult]
  /\ calls = 0
  /\ vaultExists = TRUE
  /\ isRepo = TRUE
  /\ work \in SUBSET FileUniverse
  /\ index = EmptyTree
  /\ ahead = <<>>
  /\ base = 0
  /\ originVer = 0
  /\ remoteLog = <<>>
  /\ externals = 0
  /\ flight = NoFlight
  /\ ServerStart

\* listFiles(relativePath, options) after initialize(): the walk is started.
\* recursive is "true", "false" or "undefined".
ListCall(c, rel, inc, types, rec) ==
  /\ pc[c] = "idle"
  /\ \A d \in Callers : d < c => pc[d] # "idle"
  /\ calls < MaxCalls
  /\ calls' = calls + 1
  /\ call' = [call EXCEPT ![c] =
                [op |-> "listFiles", path |-> rel, id |-> calls + 1,
                 options |-> [includeDirectories |-> inc, fileTypes |-> types,
                              recursive |-> rec]]]
  /\ pc' = [pc EXCEPT ![c] = "walk"]
  /\ UNCHANGED <<result, repoVars, remoteLog, externals, flight,
                 serverVars>>

\* listFiles(): the walk is done and files is returned.
ListDone(c) ==
  /\ pc[c] = "walk"
  /\ call[c].path = <<>> \/ IsDirectory(work, call[c].path)
  /\ Finish(c, Res("ok", WalkDirectory(work, call[c].path, call[c].options)))
  /\ UNCHANGED <<repoVars, remoteLog, externals, flight,
                 serverVars>>

\* fs.readdir rejects: the listed path is no directory.
ListFail(c) ==
  /\ pc[c] = "walk"
  /\ ~(call[c].path = <<>> \/ IsDirectory(work, call[c].path))
  /\ Finish(c, Res("FsError", 0))
  /\ UNCHANGED <<repoVars, remoteLog, externals, flight,
                 serverVars>>

NextList ==
  \/ \E c \in Callers, rel \in ListDirs, inc \in BOOLEAN,
        types \in FileTypeLists, rec \in {"true", "false", "undefined"} :
       ListCall(c, rel, inc, types, rec)
  \/ \E c \in Callers : ListDone(c) \/ ListFail(c)

SpecList == InitList /\ [][NextList]_vars

\* ---- the OAuth token functions and the MCP route ----
AUTH_CODE_EXPIRY == 10 * 60 * 1000
ACCESS_TOKEN_EXPIRY == 60 * 60 * 1000

\* The requests of one behaviour, the step of the clock and its end.
MaxRequests == 3
TickMs == 1200000
MaxNow == 4800000

\* What the requests of this part leave alone.
tokenFrame == <<repoVars, remoteLog, externals, flight, mcpRoutes,
                invocationCount, cleanups, sessions>>
authFrame == <<tokenFrame, refreshTokens>>

\* The Authorization header as startsWith('Bearer ') and substring(7) see
\* it: what stands before the token, and the token.  No header is the empty
\* scheme.
Schemes == {"", "Basic ", "bearer ", "Bearer "}

\* generateSecureToken(): the token of the request with serial number i.
SecureToken(i) == 10 + i

\* Tokens a client can present: one never issued, the one of the start, and
\* those returned by an exchange.
Presentable ==
  {0, 1} \cup {result[c].val.accessToken :
                 c \in {d \in Callers : result[d].kind = "tokens"}}

\* store.getAuthCode(code) and store.getAccessToken(token): the entry, or {}.
GetAuthCode(code) == {a \in authCodes : a.code = code}
GetAccessToken(token) == {t \in accessTokens : t.token = token}

\* store.getRefreshToken(refreshToken): the entry, or {}.
GetRefreshToken(refreshToken) ==
  {r \in refreshTokens : r.refreshToken = refreshToken}

\* InMemoryAuthStore.deleteAccessToken(token): the refresh token of the
\* stored entry, which is deleted with it.
LinkedRefreshTokens(token) ==
  {r \in refreshTokens :
     \E t \in GetAccessToken(token) : r.refreshToken = t.refreshToken}

\* The token is in the store and has not expired.
ValidToken(token) ==
  \E t \in GetAccessToken(token) : ~(now > t.expiresAt)

\* A process that has issued, at its start, one authorization code and one
\* access token; either copy of registerMcpRoute has set up the app.
InitAuth ==
  /\ pc = [c \in Callers |-> "idle"]
  /\ call = [c \in Callers |-> NoCall]
  /\ result = [c \in Callers |-> NoResult]
  /\ calls = 0
  /\ vaultExists = FALSE
  /\ isRepo = FALSE
  /\ work = EmptyTree
  /\ index = EmptyTree
  /\ ahead = <<>>
  /\ base = 0
  /\ originVer = 0
  /\ remoteLog = <<>>
  /\ externals = 0
  /\ flight = NoFlight
  /\ authCodes = {[code |-> 1, expiresAt |-> AUTH_CODE_EXPIRY]}
  /\ accessTokens = {[token |-> 1, refreshToken |-> 1,
                      expiresAt |-> ACCESS_TOKEN_EXPIRY]}
  /\ refreshTokens = {[refreshToken |-> 1, accessToken |-> 1]}
  /\ sessions = {}
  /\ now = 0
  /\ mcpRoutes \in {"first", "second"}
  /\ invocationCount = 0
  /\ cleanups = 0

\* Express hands a request to its route: o is the route, h the Authorization
\* header, code the authorization code of a token request, ok whether its
\* client id, redirect URI and verifier are the right ones.  valid is
\* history: the presented token was valid when the request arrived.
Request(c, o, h, code, ok) ==
  /\ pc[c] = "idle"
  /\ \A d \in Callers : d < c => pc[d] # "idle"
  /\ calls < MaxRequests
  /\ calls' = calls + 1
  /\ call' = [call EXCEPT ![c] =
                [op |-> o, id |-> calls + 1, header |-> h, code |-> code,
                 clientId |-> ok.clientId, redirectUri |-> ok.redirectUri,
                 codeVerifier |-> ok.codeVerifier,
                 valid |-> h.scheme = "Bearer " /\ ValidToken(h.token),
                 accessToken |-> 0, createdAt |-> 0, oldToken |-> 0,
                 attributes |-> 0]]
  /\ pc' = [pc EXCEPT ![c] = o]
  /\ UNCHANGED <<result, authCodes, accessTokens, now, authFrame>>

\* exchangeCodeForToken(): the client id is compared, then getAuthCode is
\* awaited.
ExchangeStart(c) ==
  /\ pc[c] = "exchangeCodeForToken"
  /\ IF call[c].clientId
     THEN Goto(c, "getAuthCode") /\ UNCHANGED call
     ELSE Finish(c, Res("null", call[c].code))
  /\ UNCHANGED <<authCodes, accessTokens, now, authFrame>>

\* Variant of GetAuthCodeDone that deletes the code of a request with a
\* wrong redirect URI or verifier.
GetAuthCodeDoneConsuming(c) ==
  /\ pc[c] = "getAuthCode"
  /\ LET found == GetAuthCode(call[c].code)
     IN IF found = {}
        THEN Finish(c, Res("null", call[c].code))
        ELSE IF \/ \E a \in found : now > a.expiresAt
                \/ ~call[c].redirectUri \/ ~call[c].codeVerifier
             THEN Goto(c, "deleteExpired") /\ UNCHANGED call
             ELSE Goto(c, "deleteAuthCode") /\ UNCHANGED call
  /\ UNCHANGED <<authCodes, accessTokens, now, authFrame>>

\* exchangeCodeForToken(): getAuthCode has answered; the checks of the code
\* follow, up to the next await.
GetAuthCodeDone(c) ==
  /\ pc[c] = "getAuthCode"
  /\ LET found == GetAuthCode(call[c].code)
     IN IF found = {}
        THEN Finish(c, Res("null", call[c].code))
        ELSE IF \E a \in found : now > a.expiresAt
             THEN Goto(c, "deleteExpired") /\ UNCHANGED call
             ELSE IF ~call[c].redirectUri \/ ~call[c].codeVerifier
                  THEN Finish(c, Res("null", call[c].code))
                  ELSE Goto(c, "deleteAuthCode") /\ UNCHANGED call
  /\ UNCHANGED <<authCodes, accessTokens, now, authFrame>>

\* exchangeCodeForToken(): the expired code is deleted and null returned.
DeleteExpiredDone(c) ==
  /\ pc[c] = "deleteExpired"
  /\ authCodes' = authCodes \ GetAuthCode(call[c].code)
  /\ Finish(c, Res("null", call[c].code))
  /\ UNCHANGED <<accessTokens, now, authFrame>>

\* exchangeCodeForToken(): deleteAuthCode has answered; the tokens are
\* generated and setAccessToken is awaited.
DeleteAuthCodeDone(c) ==
  /\ pc[c] = "deleteAuthCode"
  /\ authCodes' = authCodes \ GetAuthCode(call[c].code)
  /\ call' = [call EXCEPT ![c].accessToken = SecureToken(call[c].id),
                          ![c].createdAt = now]
  /\ Goto(c, "setAccessToken")
  /\ UNCHANGED <<accessTokens, now, authFrame>>

\* exchangeCodeForToken(): the token is stored and the pair returned.
SetAccessTokenDone(c) ==
  /\ pc[c] = "setAccessToken"
  /\ accessTokens' = accessTokens \cup
       {[token |-> call[c].accessToken, refreshToken |-> call[c].accessToken,
         expiresAt |-> call[c].createdAt + ACCESS_TOKEN_EXPIRY]}
  /\ refreshTokens' = (refreshTokens \ GetRefreshToken(call[c].accessToken))
       \cup {[refreshToken |-> call[c].accessToken,
               accessToken |-> call[c].accessToken]}
  /\ Finish(c, Res("tokens", [code |-> call[c].code,
                              accessToken |-> call[c].accessToken]))
  /\ UNCHANGED <<authCodes, now, tokenFrame>>

\* authenticateToken(): the header test, then validateAccessToken is
\* awaited.
AuthHeader(c) ==
  /\ pc[c] = "POST /mcp"
  /\ IF call[c].header.scheme = "Bearer "
     THEN Goto(c, "validateAccessToken") /\ UNCHANGED call
     ELSE Finish(c, Res("401", "unauthorized"))
  /\ UNCHANGED <<authCodes, accessTokens, now, authFrame>>

\* Variant of ValidateDone without the test of expiresAt.
ValidateDoneNoExpiry(c) ==
  /\ pc[c] = "validateAccessToken"
  /\ IF GetAccessToken(call[c].header.token) = {}
     THEN Finish(c, Res("401", "invalid_token"))
     ELSE Goto(c, "mcpHandler") /\ UNCHANGED call
  /\ UNCHANGED <<authCodes, accessTokens, now, authFrame>>

\* validateAccessToken(): getAccessToken has answered.  An unknown token is
\* refused, an expired one is deleted first; otherwise next() calls
\* mcpHandler, which awaits the MCP server.
ValidateDone(c) ==
  /\ pc[c] = "validateAccessToken"
  /\ LET found == GetAccessToken(call[c].header.token)
     IN IF found = {}
        THEN Finish(c, Res("401", "invalid_token"))
        ELSE IF \E t \in found : now > t.expiresAt
             THEN Goto(c, "deleteAccessToken") /\ UNCHANGED call
             ELSE Goto(c, "mcpHandler") /\ UNCHANGED call
  /\ UNCHANGED <<authCodes, accessTokens, now, authFrame>>

\* validateAccessToken(): the expired token is deleted; the middleware
\* answers 401.
DeleteAccessTokenDone(c) ==
  /\ pc[c] = "deleteAccessToken"
  /\ accessTokens' = accessTokens \ GetAccessToken(call[c].header.token)
  /\ refreshTokens' = refreshTokens \ LinkedRefreshTokens(call[c].header.token)
  /\ Finish(c, Res("401", "invalid_token"))
  /\ UNCHANGED <<authCodes, now, tokenFrame>>

\* mcpHandler(): the MCP server has handled the request, or has thrown.
McpHandlerDone(c) ==
  /\ pc[c] = "mcpHandler"
  /\ \E status \in {"200", "500"} : Finish(c, Res(status, [jsonrpc |-> "2.0"]))
  /\ UNCHANGED <<authCodes, accessTokens, now, authFrame>>

\* GET /mcp: the answer of the copy of registerMcpRoute in use.
GetMcp(c) ==
  /\ pc[c] = "GET /mcp"
  /\ IF mcpRoutes = "first"
     THEN Finish(c, Res("200", [status |-> "ok",
                                message |-> "MCP endpoint is POST /mcp",
                                auth |-> "Bearer token required"]))
     ELSE Finish(c, Res("405", [error |-> "method_not_allowed",
                                error_description |->
                                  "SSE streaming is not supported in Lambda"]))
  /\ UNCHANGED <<authCodes, accessTokens, now, authFrame>>

\* revokeToken(): getAccessToken has answered.
RevokeGet(c) ==
  /\ pc[c] = "revokeToken"
  /\ IF GetAccessToken(call[c].header.token) = {}
     THEN Finish(c, Res("false", 0))
     ELSE Goto(c, "revokeDelete") /\ UNCHANGED call
  /\ UNCHANGED <<authCodes, accessTokens, now, authFrame>>

\* revokeToken(): the token is deleted.
RevokeDelete(c) ==
  /\ pc[c] = "revokeDelete"
  /\ accessTokens' = accessTokens \ GetAccessToken(call[c].header.token)
  /\ refreshTokens' = refreshTokens \ LinkedRefreshTokens(call[c].header.token)
  /\ Finish(c, Res("true", 0))
  /\ UNCHANGED <<authCodes, now, tokenFrame>>

\* Time passes.
Tick ==
  /\ now < MaxNow
  /\ now' = now + TickMs
  /\ UNCHANGED <<pc, call, result, calls, authCodes, accessTokens, authFrame>>

NoHeader == [scheme |-> "", token |-> 0]

\* The token request is right, or wrong in one of its parameters.
AllOk == [clientId |-> TRUE, redirectUri |-> TRUE, codeVerifier |-> TRUE]
TokenRequests ==
  {AllOk, [AllOk EXCEPT !.clientId = FALSE],
   [AllOk EXCEPT !.redirectUri = FALSE], [AllOk EXCEPT !.codeVerifier = FALSE]}

NextAuth ==
  \/ \E c \in Callers, code \in {0, 1},
        ok \in TokenRequests :
       Request(c, "exchangeCodeForToken", NoHeader, code, ok)
  \/ \E c \in Callers, sch \in Schemes, t \in Presentable :
       Request(c, "POST /mcp", [scheme |-> sch, token |-> t], 0,
               AllOk)
  \/ \E c \in Callers, h \in {NoHeader, [scheme |-> "Bearer ", token |-> 1]} :
       Request(c, "GET /mcp", h, 0, AllOk)
  \/ \E c \in Callers, t \in Presentable :
       Request(c, "revokeToken", [scheme |-> "Bearer ", token |-> t], 0,
               AllOk)
  \/ \E c \in Callers :
       \/ ExchangeStart(c) \/ GetAuthCodeDone(c) \/ DeleteExpiredDone(c)
       \/ DeleteAuthCodeDone(c) \/ SetAccessTokenDone(c)
       \/ AuthHeader(c) \/ ValidateDone(c) \/ DeleteAccessTokenDone(c)
       \/ McpHandlerDone(c) \/ GetMcp(c)
       \/ RevokeGet(c) \/ RevokeDelete(c)
  \/ Tick

SpecAuth == InitAuth /\ [][NextAuth]_vars

\* ---- the invocation middleware of the Lambda server ----
MaxInvocations == 4

\* Requests the middleware sees.
Invocations ==
  {[method |-> "GET", path |-> "/health"], [method |-> "GET", path |-> "/mcp"],
   [method |-> "POST", path |-> "/mcp"], [method |-> "POST", path |-> "/oauth/token"]}

\* detectStartType(): existsSync('/tmp/obsidian-vault').
DetectStartType == IF vaultExists THEN "warm" ELSE "cold"

\* getInvocationCount() returns ++invocationCount: the value returned by the
\* k-th call after the state n.
GetInvocationCount(n, k) == n + k

\* A Lambda process has started: /tmp holds no vault yet.
InitLambda ==
  /\ pc = [c \in Callers |-> "idle"]
  /\ call = [c \in Callers |-> NoCall]
  /\ result = [c \in Callers |-> NoResult]
  /\ calls = 0
  /\ vaultExists = FALSE
  /\ isRepo = FALSE
  /\ work = EmptyTree
  /\ index = EmptyTree
  /\ ahead = <<>>
  /\ base = 0
  /\ originVer = 0
  /\ remoteLog = <<>>
  /\ externals = 0
  /\ flight = NoFlight
  /\ ServerStart

\* The first middleware of the app, for a request on connection c: the
\* start type is detected, 'Lambda invoked' is logged with
\* getInvocationCount(), getInvocationCount() is called again for the
\* test that starts cleanupOldCache(), and next() is called.  The result is
\* the log entry.
LambdaInvoked(c, req) ==
  /\ calls < MaxInvocations
  /\ calls' = calls + 1
  /\ LET logged == GetInvocationCount(invocationCount, 1)
         tested == GetInvocationCount(invocationCount, 2)
     IN /\ invocationCount' = tested
        /\ cleanups' = IF tested = 1 THEN cleanups + 1 ELSE cleanups
        /\ result' = [result EXCEPT ![c] =
                        Res("Lambda invoked",
                            [startType |-> DetectStartType,
                             invocation |-> logged,
                             path |-> req.path, method |-> req.method])]
  /\ UNCHANGED <<pc, call, repoVars, remoteLog, externals, flight, authCodes,
                 accessTokens, refreshTokens, sessions, now, mcpRoutes>>

\* A tool call of an invocation has cloned the vault to /tmp/obsidian-vault.
VaultCloned ==
  /\ calls > 0
  /\ ~vaultExists
  /\ vaultExists' = TRUE
  /\ isRepo' = TRUE
  /\ UNCHANGED <<pc, call, result, calls, work, index, ahead, base, originVer,
                 remoteLog, externals, flight, serverVars>>

NextLambda ==
  \/ \E c \in Callers, req \in Invocations : LambdaInvoked(c, req)
  \/ VaultCloned

SpecLambda == InitLambda /\ [][NextLambda]_vars

\* ---- handleCreateNote ----

\* handleCreateNote(vault, {path, content, overwrite}): vault.fileExists(path)
\* is called and awaits initialize().
CreateNote(c, p, v, ow) ==
  /\ pc[c] = "idle"
  /\ \A d \in Callers : d < c => pc[d] # "idle"
  /\ calls < MaxCalls
  /\ calls' = calls + 1
  /\ call' = [call EXCEPT ![c] = [NoCall EXCEPT !.op = "fileExists", !.path = p,
                                                !.dest = p, !.val = v,
                                                !.note = TRUE, !.overwrite = ow,
                                                !.id = calls + 1]]
  /\ UNCHANGED result
  /\ IF vaultExists
     THEN /\ pc' = [pc EXCEPT ![c] = "setUrl"]
          /\ flight' = FlightJoin
     ELSE /\ pc' = [pc EXCEPT ![c] = "clone"]
          /\ flight' = Bump(FlightJoin, "clone")
  /\ UNCHANGED <<repoVars, remoteLog, externals, serverVars>>

\* fileExists(): existsSync(fullPath) is returned; handleCreateNote throws
\* 'already exists' when the file is there and overwrite is not set, and
\* otherwise calls vault.writeFile(path, content), which awaits initialize().
ExistsDone(c) ==
  /\ pc[c] = "exists"
  /\ IF vaultExists /\ work[call[c].path] # Absent /\ ~call[c].overwrite
     THEN /\ Finish(c, Res("AlreadyExists", Returned(c)))
          /\ flight' = flight
     ELSE /\ call' = [call EXCEPT ![c].op = "writeFile"]
          /\ IF vaultExists
             THEN /\ pc' = [pc EXCEPT ![c] = "setUrl"]
                  /\ flight' = FlightJoin
             ELSE /\ pc' = [pc EXCEPT ![c] = "clone"]
                  /\ flight' = Bump(FlightJoin, "clone")
          /\ UNCHANGED <<result, calls>>
  /\ UNCHANGED <<repoVars, remoteLog, externals, serverVars>>

\* The calls of the create-note tool.
NextNote ==
  \/ \E c \in Callers, p \in Paths, v \in Contents, ow \in BOOLEAN :
       CreateNote(c, p, v, ow)
  \/ \E c \in Callers :
       \/ CloneOk(c) \/ CloneFail(c) \/ ConfigDone(c)
       \/ SetUrlDone(c) \/ SetUrlFail(c)
       \/ FetchOk(c) \/ FetchFail(c) \/ FetchTimeout(c)
       \/ ResetDone(c) \/ ResetFail(c)
       \/ CleanDone(c) \/ CleanFail(c)
       \/ RemoveDone(c)
       \/ ExistsDone(c)
       \/ MkdirDone(c) \/ WriteDone(c) \/ WriteFail(c)
       \/ AddDone(c) \/ AddFail(c)
       \/ StatusDone(c) \/ StatusFail(c)
       \/ CommitDone(c) \/ CommitFail(c)
       \/ PushUrlDone(c) \/ PushUrlFail(c)
       \/ PushOk(c) \/ PushFail(c)
       \/ BackoffDone(c)

SpecNote == Init /\ [][NextNote]_vars

\* ---- handleRenameTag ----

\* Length of a note, in words.
MaxWords == 2

\* The words of the notes, for old_tag 'todo' and new_tag 'task'.
Words == {"#todo", "#TODO", "#todoist", "text"}
NoteContents == UNION {[1..n -> Words] : n \in 0..MaxWords}

\* content.includes('#todo'), case-sensitive and without word boundary.
Includes(content) ==
  \E i \in DOMAIN content : content[i] \in {"#todo", "#todoist"}

\* The word is a match of /#todo\b/g, or of /#todo\b/gi.
Matches(w, caseSensitive) ==
  w = "#todo" \/ (~caseSensitive /\ w = "#TODO")

\* content.replace(regexp, '#task') and content.match(regexp)?.length || 0.
Replace(content, caseSensitive) ==
  [i \in DOMAIN content |->
     IF Matches(content[i], caseSensitive) THEN "#task" ELSE content[i]]
MatchCount(content, caseSensitive) ==
  Cardinality({i \in DOMAIN content : Matches(content[i], caseSensitive)})

\* vault.listFiles('', {fileTypes: ['md'], recursive: true}) on the notes w.
AllFiles(w) ==
  (IF "a.md" \in DOMAIN w THEN <<"a.md">> ELSE <<>>) \o
  (IF "b.md" \in DOMAIN w THEN <<"b.md">> ELSE <<>>)

\* The vault holds some of the notes; work maps each to its words.
InitTag ==
  /\ pc = [c \in Callers |-> "idle"]
  /\ call = [c \in Callers |-> NoCall]
  /\ result = [c \in Callers |-> NoResult]
  /\ calls = 0
  /\ vaultExists = TRUE
  /\ isRepo = TRUE
  /\ work \in UNION {[D -> NoteContents] : D \in SUBSET Paths}
  /\ index = EmptyTree
  /\ ahead = <<>>
  /\ base = 0
  /\ originVer = 0
  /\ remoteLog = <<>>
  /\ externals = 0
  /\ flight = NoFlight
  /\ ServerStart

tagFrame == <<vaultExists, isRepo, index, ahead, base, originVer, remoteLog,
              externals, flight, serverVars>>

\* handleRenameTag(vault, {old_tag, new_tag, case_sensitive, dry_run}) is
\* called and awaits vault.listFiles.  Caller 1 previews (dry_run), caller 2
\* applies; each does so once.  start is history: the notes at the call.
RenameTag(c, cs) ==
  /\ pc[c] = "idle"
  /\ result[c] = NoResult
  /\ calls' = calls + 1
  /\ call' = [call EXCEPT ![c] =
                [op |-> "rename-tag", id |-> calls + 1, caseSensitive |-> cs,
                 dryRun |-> (c = 1), allFiles |-> <<>>, i |-> 1,
                 filesAffected |-> <<>>, totalReplacements |-> 0,
                 newContent |-> <<>>, start |-> work]]
  /\ pc' = [pc EXCEPT ![c] = "listFiles"]
  /\ UNCHANGED <<result, work, tagFrame>>

\* The response of handleRenameTag after its loop; start, end and
\* caseSensitive are history.
TagReport(c, filesAffected, totalReplacements) ==
  Res("ok", [files_affected |-> filesAffected,
             total_replacements |-> totalReplacements,
             dry_run |-> call[c].dryRun,
             caseSensitive |-> call[c].caseSensitive,
             start |-> call[c].start, end |-> work])

\* The loop goes to the file after i, or ends.
NextFile(c, filesAffected, totalReplacements) ==
  IF call[c].i < Len(call[c].allFiles)
  THEN /\ call' = [call EXCEPT ![c].i = @ + 1,
                               ![c].filesAffected = filesAffected,
                               ![c].totalReplacements = totalReplacements]
       /\ Goto(c, "readFile")
  ELSE Finish(c, TagReport(c, filesAffected, totalReplacements))

\* vault.listFiles has answered: the loop starts.
ListFilesDone(c) ==
  /\ pc[c] = "listFiles"
  /\ IF AllFiles(work) = <<>>
     THEN Finish(c, TagReport(c, <<>>, 0))
     ELSE /\ call' = [call EXCEPT ![c].allFiles = AllFiles(work)]
          /\ Goto(c, "readFile")
  /\ UNCHANGED <<work, tagFrame>>

\* Variant of ReadFileDone that counts a file only when it is written.
ReadFileDoneCountsWrites(c) ==
  /\ pc[c] = "readFile"
  /\ LET filePath == call[c].allFiles[call[c].i]
         content == work[filePath]
         count == MatchCount(content, call[c].caseSensitive)
     IN IF Includes(content) /\ count > 0 /\ ~call[c].dryRun
        THEN /\ call' = [call EXCEPT
                  ![c].filesAffected = Append(@, filePath),
                  ![c].totalReplacements = @ + count,
                  ![c].newContent = Replace(content, call[c].caseSensitive)]
             /\ Goto(c, "writeFile")
        ELSE NextFile(c, call[c].filesAffected, call[c].totalReplacements)
  /\ UNCHANGED <<work, tagFrame>>

\* vault.readFile(filePath) has answered: the matches are counted and, when
\* there are some, the file is recorded and, unless dry_run, written.
ReadFileDone(c) ==
  /\ pc[c] = "readFile"
  /\ LET filePath == call[c].allFiles[call[c].i]
         content == work[filePath]
         count == MatchCount(content, call[c].caseSensitive)
     IN IF Includes(content) /\ count > 0
        THEN IF ~call[c].dryRun
             THEN /\ call' = [call EXCEPT
                       ![c].filesAffected = Append(@, filePath),
                       ![c].totalReplacements = @ + count,
                       ![c].newContent = Replace(content, call[c].caseSensitive)]
                  /\ Goto(c, "writeFile")
             ELSE NextFile(c, Append(call[c].filesAffected, filePath),
                           call[c].totalReplacements + count)
        ELSE NextFile(c, call[c].filesAffected, call[c].totalReplacements)
  /\ UNCHANGED <<work, tagFrame>>

\* vault.writeFile(filePath, newContent) has resolved.
TagWriteDone(c) ==
  /\ pc[c] = "writeFile"
  /\ work' = [work EXCEPT ![call[c].allFiles[call[c].i]] = call[c].newContent]
  /\ IF call[c].i < Len(call[c].allFiles)
     THEN /\ call' = [call EXCEPT ![c].i = @ + 1]
          /\ Goto(c, "readFile")
     ELSE /\ pc' = [pc EXCEPT ![c] = "idle"]
          /\ result' = [result EXCEPT ![c] =
                [TagReport(c, call[c].filesAffected, call[c].totalReplacements)
                   EXCEPT !.val.end = work']]
          /\ call' = [call EXCEPT ![c] = NoCall]
          /\ UNCHANGED calls
  /\ UNCHANGED tagFrame

\* vault.writeFile rejects, with the file written or not: the handler
\* answers success: false.
TagWriteFail(c) ==
  /\ pc[c] = "writeFile"
  /\ \/ work' = work
     \/ work' = [work EXCEPT ![call[c].allFiles[call[c].i]] = call[c].newContent]
  /\ Finish(c, Res("error", 0))
  /\ UNCHANGED tagFrame

NextTag ==
  \/ \E c \in Callers, cs \in BOOLEAN : RenameTag(c, cs)
  \/ \E c \in Callers :
       \/ ListFilesDone(c) \/ ReadFileDone(c)
       \/ TagWriteDone(c) \/ TagWriteFail(c)

SpecTag == InitTag /\ [][NextTag]_vars

\* ---- the move-note tool ----

\* handleMoveNote(vault, {source_path: s, destination_path: d, overwrite: ow})
\* starts with vault.fileExists(d), which awaits initialize().
MoveNote(c, s, d, ow) ==
  /\ pc[c] = "idle"
  /\ \A e \in Callers : e < c => pc[e] # "idle"
  /\ calls < MaxCalls
  /\ calls' = calls + 1
  /\ call' = [call EXCEPT ![c] = [NoCall EXCEPT !.op = "fileExists", !.path = d,
                                                !.dest = d, !.src = s,
                                                !.move = TRUE, !.overwrite = ow,
                                                !.id = calls + 1]]
  /\ UNCHANGED result
  /\ IF vaultExists
     THEN /\ pc' = [pc EXCEPT ![c] = "setUrl"]
          /\ flight' = FlightJoin
     ELSE /\ pc' = [pc EXCEPT ![c] = "clone"]
          /\ flight' = Bump(FlightJoin, "clone")
  /\ UNCHANGED <<repoVars, remoteLog, externals, serverVars>>

\* The call of vault.moveFile(source_path, destination_path) in
\* handleMoveNote: the arguments of the method.
MoveArgs(c) ==
  [NoCall EXCEPT !.op = "moveFile", !.path = call[c].src,
                 !.dest = call[c].dest, !.src = call[c].src, !.move = TRUE,
                 !.overwrite = call[c].overwrite, !.id = call[c].id]

\* fileExists(): existsSync(fullPath) is returned.  handleMoveNote throws
\* 'already exists' when the destination is there and overwrite is not set,
\* calls vault.deleteFile(destination_path) when it is there and overwrite is
\* set, and calls vault.moveFile() when it is not there.  Both methods await
\* initialize().
MoveExistsDone(c) ==
  /\ pc[c] = "exists"
  /\ IF vaultExists /\ work[call[c].dest] # Absent /\ ~call[c].overwrite
     THEN /\ Finish(c, Res("AlreadyExists", 0))
          /\ flight' = flight
     ELSE /\ call' = [call EXCEPT ![c] =
                        IF vaultExists /\ work[call[c].dest] # Absent
                        THEN [call[c] EXCEPT !.op = "deleteFile"]
                        ELSE MoveArgs(c)]
          /\ IF vaultExists
             THEN /\ pc' = [pc EXCEPT ![c] = "setUrl"]
                  /\ flight' = FlightJoin
             ELSE /\ pc' = [pc EXCEPT ![c] = "clone"]
                  /\ flight' = Bump(FlightJoin, "clone")
          /\ UNCHANGED <<result, calls>>
  /\ UNCHANGED <<repoVars, remoteLog, externals, serverVars>>

\* handleMoveNote: vault.deleteFile() has returned; vault.moveFile() is
\* called and awaits initialize().
MoveAfterDelete(c) ==
  /\ pc[c] = "deleted"
  /\ call' = [call EXCEPT ![c] = MoveArgs(c)]
  /\ IF vaultExists
     THEN /\ pc' = [pc EXCEPT ![c] = "setUrl"]
          /\ flight' = FlightJoin
     ELSE /\ pc' = [pc EXCEPT ![c] = "clone"]
          /\ flight' = Bump(FlightJoin, "clone")
  /\ UNCHANGED <<result, calls, repoVars, remoteLog, externals, serverVars>>

\* The calls of the move-note tool.
NextMove ==
  \/ \E c \in Callers, s \in Paths, ow \in BOOLEAN :
       MoveNote(c, s, CHOOSE d \in Paths : d # s, ow)
  \/ \E c \in Callers :
       \/ CloneOk(c) \/ CloneFail(c) \/ ConfigDone(c)
       \/ SetUrlDone(c) \/ SetUrlFail(c)
       \/ FetchOk(c) \/ FetchFail(c) \/ FetchTimeout(c)
       \/ ResetDone(c) \/ ResetFail(c)
       \/ CleanDone(c) \/ CleanFail(c)
       \/ RemoveDone(c)
       \/ MoveExistsDone(c) \/ MoveAfterDelete(c)
       \/ StatsInit(c) \/ StatDone(c) \/ UnlinkDone(c) \/ UnlinkFail(c)
       \/ MoveMkdirDone(c) \/ RenameDone(c) \/ RenameFail(c)
       \/ AddDone(c) \/ AddFail(c)
       \/ StatusDone(c) \/ StatusFail(c)
       \/ CommitDone(c) \/ CommitFail(c)
       \/ PushUrlDone(c) \/ PushUrlFail(c)
       \/ PushOk(c) \/ PushFail(c)
       \/ BackoffDone(c)

SpecMove == Init /\ [][NextMove]_vars

\* ---- token refresh and the DynamoDB auth store ----

\* The access token a deleteAccessToken() in progress was called with:
\* refreshData.accessToken in refreshAccessToken(), the presented token in
\* validateAccessToken() and revokeToken().
DeletedToken(c) ==
  IF call[c].op = "refreshAccessToken" THEN call[c].oldToken
  ELSE call[c].header.token

\* refreshAccessToken(): getRefreshToken has answered for the presented
\* refresh token (header.token of the request); getAccessToken is awaited
\* for the access token it is bound to.
RefreshGetRefreshDone(c) ==
  /\ pc[c] = "refreshAccessToken"
  /\ LET refreshData == GetRefreshToken(call[c].header.token)
     IN IF refreshData = {}
        THEN Finish(c, Res("null", call[c].header.token))
        ELSE /\ call' = [call EXCEPT ![c].oldToken =
                           (CHOOSE r \in refreshData : TRUE).accessToken]
             /\ Goto(c, "refreshGetAccess")
  /\ UNCHANGED <<authCodes, accessTokens, now, authFrame>>

\* refreshAccessToken(): getAccessToken has answered.  Without the access
\* token the refresh token is deleted and null returned; with it,
\* deleteAccessToken is awaited.
RefreshGetAccessDone(c) ==
  /\ pc[c] = "refreshGetAccess"
  /\ IF GetAccessToken(call[c].oldToken) = {}
     THEN Goto(c, "refreshDeleteRefresh")
     ELSE Goto(c, "refreshDelete")
  /\ UNCHANGED <<call, authCodes, accessTokens, now, authFrame>>

\* refreshAccessToken(): deleteRefreshToken(refreshToken) has answered; null
\* is returned.
RefreshDeleteRefreshDone(c) ==
  /\ pc[c] = "refreshDeleteRefresh"
  /\ refreshTokens' = refreshTokens \ GetRefreshToken(call[c].header.token)
  /\ Finish(c, Res("null", call[c].header.token))
  /\ UNCHANGED <<authCodes, accessTokens, now, tokenFrame>>

\* What follows the return of deleteAccessToken(): validateAccessToken()
\* returns false (401), revokeToken() returns true, refreshAccessToken()
\* generates the new tokens, reads the clock and awaits setAccessToken.
AfterDelete(c) ==
  CASE call[c].op = "refreshAccessToken" ->
         /\ call' = [call EXCEPT ![c].accessToken = SecureToken(call[c].id),
                                 ![c].createdAt = now, ![c].attributes = 0]
         /\ Goto(c, "putItem")
    [] call[c].op = "revokeToken" -> Finish(c, Res("true", 0))
    [] OTHER -> Finish(c, Res("401", "invalid_token"))

\* Variant of DeleteItemDone that leaves the refresh token of the deleted
\* access token in the table.
DeleteItemDoneKeepsRefresh(c) ==
  /\ pc[c] \in {"deleteAccessToken", "revokeDelete", "refreshDelete"}
  /\ accessTokens' = accessTokens \ GetAccessToken(DeletedToken(c))
  /\ AfterDelete(c)
  /\ UNCHANGED <<authCodes, now, authFrame>>

\* Variant of DeleteItemDone whose DeleteItem removes nothing.
DeleteItemDoneKeepsItem(c) ==
  /\ pc[c] \in {"deleteAccessToken", "revokeDelete", "refreshDelete"}
  /\ AfterDelete(c)
  /\ UNCHANGED <<authCodes, accessTokens, now, authFrame>>

\* DynamoDbAuthStore.deleteAccessToken(): DeleteItem with ReturnValues
\* ALL_OLD has answered.  With the attributes of a deleted item,
\* deleteRefreshToken(data.refreshToken) is awaited; without, the method
\* returns.
DeleteItemDone(c) ==
  /\ pc[c] \in {"deleteAccessToken", "revokeDelete", "refreshDelete"}
  /\ LET attributes == GetAccessToken(DeletedToken(c))
     IN /\ accessTokens' = accessTokens \ attributes
        /\ IF attributes = {}
           THEN AfterDelete(c)
           ELSE /\ call' = [call EXCEPT ![c].attributes =
                              (CHOOSE t \in attributes : TRUE).refreshToken]
                /\ Goto(c, "deleteRefreshToken")
  /\ UNCHANGED <<authCodes, now, authFrame>>

\* DynamoDbAuthStore.deleteAccessToken(): deleteRefreshToken has answered
\* and the method returns.
DeleteRefreshTokenDone(c) ==
  /\ pc[c] = "deleteRefreshToken"
  /\ refreshTokens' = refreshTokens \ GetRefreshToken(call[c].attributes)
  /\ AfterDelete(c)
  /\ UNCHANGED <<authCodes, accessTokens, now, tokenFrame>>

\* DynamoDbAuthStore.setAccessToken(): PutItem of the token has answered;
\* setRefreshToken is awaited.  The new refresh token is written like the
\* new access token.
PutItemDone(c) ==
  /\ pc[c] = "putItem"
  /\ accessTokens' = (accessTokens \ GetAccessToken(call[c].accessToken)) \cup
       {[token |-> call[c].accessToken, refreshToken |-> call[c].accessToken,
         expiresAt |-> call[c].createdAt + ACCESS_TOKEN_EXPIRY]}
  /\ Goto(c, "setRefreshToken")
  /\ UNCHANGED <<call, authCodes, now, authFrame>>

\* DynamoDbAuthStore.setAccessToken(): setRefreshToken has answered;
\* refreshAccessToken() returns the new pair.  presented is history: the
\* refresh token of the request.
SetRefreshTokenDone(c) ==
  /\ pc[c] = "setRefreshToken"
  /\ refreshTokens' = (refreshTokens \ GetRefreshToken(call[c].accessToken))
       \cup {[refreshToken |-> call[c].accessToken,
               accessToken |-> call[c].accessToken]}
  /\ Finish(c, Res("tokens", [code |-> 0, accessToken |-> call[c].accessToken,
                              presented |-> call[c].header.token]))
  /\ UNCHANGED <<authCodes, accessTokens, now, tokenFrame>>

\* Refresh, validation (through POST /mcp) and revocation of the tokens.
NextRefresh ==
  \/ \E c \in Callers, t \in Presentable,
        o \in {"refreshAccessToken", "POST /mcp", "revokeToken"} :
       Request(c, o, [scheme |-> "Bearer ", token |-> t], 0, AllOk)
  \/ \E c \in Callers :
       \/ RefreshGetRefreshDone(c) \/ RefreshGetAccessDone(c)
       \/ RefreshDeleteRefreshDone(c)
       \/ DeleteItemDone(c) \/ DeleteRefreshTokenDone(c)
       \/ PutItemDone(c) \/ SetRefreshTokenDone(c)
       \/ AuthHeader(c) \/ ValidateDone(c) \/ McpHandlerDone(c)
       \/ RevokeGet(c)
  \/ Tick

SpecRefresh == InitAuth /\ [][NextRefresh]_vars

\* ---- sessions and the approval of an authorization request ----
SESSION_EXPIRY_MS == 24 * 60 * 60 * 1000

\* What the requests of this part leave alone.
sessionFrame == <<repoVars, remoteLog, externals, flight, mcpRoutes,
                  invocationCount, cleanups, accessTokens, refreshTokens>>

\* The session of the browser's cookie.
Cookie == 1

\* A request that has not read a session.
NoSession == [sessionId |-> 0, authenticated |-> FALSE,
              pendingAuthRequest |-> 0, expiresAt |-> 0]

\* getSession(sessionId): the stored session, unless it has expired; an
\* expired session is deleted from the store.
GetSession(sessionId) ==
  {x \in sessions : x.sessionId = sessionId /\ ~(now > x.expiresAt)}
ExpiredSession(sessionId) ==
  {x \in sessions : x.sessionId = sessionId /\ now > x.expiresAt}

\* store.setSession(session): the entry of the session id is replaced.
SetSession(session) ==
  {x \in sessions : x.sessionId # session.sessionId} \cup {session}

\* createSession(): a fresh, unauthenticated session, for the request with
\* serial number i.
NewSession(i) ==
  [sessionId |-> SecureToken(i), authenticated |-> FALSE,
   pendingAuthRequest |-> 0, expiresAt |-> now + SESSION_EXPIRY_MS]

\* The browser holds the cookie of a session that was created up to almost
\* a day ago and is logged in or not; no authorization request is pending.
InitSession ==
  /\ pc = [c \in Callers |-> "idle"]
  /\ call = [c \in Callers |-> NoCall]
  /\ result = [c \in Callers |-> NoResult]
  /\ calls = 0
  /\ vaultExists = FALSE
  /\ isRepo = FALSE
  /\ work = EmptyTree
  /\ index = EmptyTree
  /\ ahead = <<>>
  /\ base = 0
  /\ originVer = 0
  /\ remoteLog = <<>>
  /\ externals = 0
  /\ flight = NoFlight
  /\ authCodes = {}
  /\ accessTokens = {}
  /\ refreshTokens = {}
  /\ \E a \in BOOLEAN, age \in {0, SESSION_EXPIRY_MS - 2 * TickMs} :
       sessions = {[sessionId |-> Cookie, authenticated |-> a,
                    pendingAuthRequest |-> 0,
                    expiresAt |-> SESSION_EXPIRY_MS - age]}
  /\ now = 0
  /\ mcpRoutes = "first"
  /\ invocationCount = 0
  /\ cleanups = 0

\* Express hands a request with the cookie to its route o; token says
\* whether the body of a login holds the personal token.
SessionRequest(c, o, token) ==
  /\ pc[c] = "idle"
  /\ \A d \in Callers : d < c => pc[d] # "idle"
  /\ calls < MaxRequests
  /\ calls' = calls + 1
  /\ call' = [call EXCEPT ![c] =
                [op |-> o, id |-> calls + 1, sessionId |-> Cookie,
                 token |-> token, session |-> NoSession]]
  /\ pc' = [pc EXCEPT ![c] = o]
  /\ UNCHANGED <<result, authCodes, sessions, now, sessionFrame>>

\* POST /login and GET /oauth/authorize: getSession(cookie) has answered;
\* without a session createSession() stores a new one and its id is used.
\* Then authenticateSession() and storePendingAuthRequest() await
\* getSession.
RouteSessionDone(c) ==
  /\ pc[c] \in {"POST /login", "GET /oauth/authorize"}
  /\ IF GetSession(call[c].sessionId) = {}
     THEN /\ sessions' = (sessions \ ExpiredSession(call[c].sessionId))
                           \cup {NewSession(call[c].id)}
          /\ call' = [call EXCEPT ![c].sessionId = SecureToken(call[c].id)]
     ELSE UNCHANGED <<sessions, call>>
  /\ Goto(c, IF pc[c] = "POST /login" THEN "authenticateSession"
             ELSE "storePendingAuthRequest")
  /\ UNCHANGED <<authCodes, now, sessionFrame>>

\* authenticateSession(): getSession has answered and the token is
\* compared; with the right token setSession is awaited.
AuthenticateGetDone(c) ==
  /\ pc[c] = "authenticateSession"
  /\ sessions' = sessions \ ExpiredSession(call[c].sessionId)
  /\ LET found == GetSession(call[c].sessionId)
     IN IF found = {} \/ ~call[c].token
        THEN Finish(c, Res("200", "Invalid authentication token"))
        ELSE /\ call' = [call EXCEPT ![c].session = CHOOSE x \in found : TRUE]
             /\ Goto(c, "authenticateSet")
  /\ UNCHANGED <<authCodes, now, sessionFrame>>

\* authenticateSession(): the session that was read is stored with
\* authenticated: true, and the login redirects to the consent page.
AuthenticateSetDone(c) ==
  /\ pc[c] = "authenticateSet"
  /\ sessions' = SetSession([call[c].session EXCEPT !.authenticated = TRUE])
  /\ Finish(c, Res("302", "/oauth/consent"))
  /\ UNCHANGED <<authCodes, now, sessionFrame>>

\* storePendingAuthRequest(): getSession has answered; setSession is
\* awaited.
StoreGetDone(c) ==
  /\ pc[c] = "storePendingAuthRequest"
  /\ sessions' = sessions \ ExpiredSession(call[c].sessionId)
  /\ LET found == GetSession(call[c].sessionId)
     IN IF found = {}
        THEN Finish(c, Res("400", "invalid_request"))
        ELSE /\ call' = [call EXCEPT ![c].session = CHOOSE x \in found : TRUE]
             /\ Goto(c, "storeSet")
  /\ UNCHANGED <<authCodes, now, sessionFrame>>

\* storePendingAuthRequest(): the session that was read is stored with the
\* pending request, which is named after the request that stores it; the
\* route awaits isAuthenticated.
StoreSetDone(c) ==
  /\ pc[c] = "storeSet"
  /\ sessions' = SetSession([call[c].session EXCEPT
                               !.pendingAuthRequest = call[c].id])
  /\ Goto(c, "authorizeIsAuthenticated")
  /\ UNCHANGED <<call, authCodes, now, sessionFrame>>

\* GET /oauth/authorize: isAuthenticated has answered, and the route
\* redirects to the login or to the consent page.
AuthorizeRedirect(c) ==
  /\ pc[c] = "authorizeIsAuthenticated"
  /\ sessions' = sessions \ ExpiredSession(call[c].sessionId)
  /\ Finish(c, Res("302", IF \E x \in GetSession(call[c].sessionId) :
                               x.authenticated
                          THEN "/oauth/consent" ELSE "/login"))
  /\ UNCHANGED <<authCodes, now, sessionFrame>>

\* POST /oauth/approve: isAuthenticated has answered; an unauthenticated
\* request is sent to the login, otherwise consumePendingAuthRequest is
\* awaited.
ApproveIsAuthenticated(c) ==
  /\ pc[c] = "POST /oauth/approve"
  /\ sessions' = sessions \ ExpiredSession(call[c].sessionId)
  /\ IF \E x \in GetSession(call[c].sessionId) : x.authenticated
     THEN Goto(c, "consumePendingAuthRequest") /\ UNCHANGED call
     ELSE Finish(c, Res("302", "/login"))
  /\ UNCHANGED <<authCodes, now, sessionFrame>>

\* consumePendingAuthRequest(): getSession has answered.  Without a
\* session, authentication or a pending request null is returned and the
\* route answers 400; otherwise setSession is awaited.
ConsumeGetDone(c) ==
  /\ pc[c] = "consumePendingAuthRequest"
  /\ sessions' = sessions \ ExpiredSession(call[c].sessionId)
  /\ LET found == {x \in GetSession(call[c].sessionId) :
                     x.authenticated /\ x.pendingAuthRequest # 0}
     IN IF found = {}
        THEN Finish(c, Res("400", "invalid_request"))
        ELSE /\ call' = [call EXCEPT ![c].session = CHOOSE x \in found : TRUE]
             /\ Goto(c, "consumeSet")
  /\ UNCHANGED <<authCodes, now, sessionFrame>>

\* consumePendingAuthRequest(): the session that was read is stored without
\* its pending request, and the request is returned; the route awaits
\* createAuthorizationCode.
ConsumeSetDone(c) ==
  /\ pc[c] = "consumeSet"
  /\ sessions' = SetSession([call[c].session EXCEPT
                               !.pendingAuthRequest = 0])
  /\ Goto(c, "createAuthorizationCode")
  /\ UNCHANGED <<call, authCodes, now, sessionFrame>>

\* createAuthorizationCode(): the code is stored; the route redirects to the
\* client with the code.  request is history: the pending request the code
\* was issued for.
CreateAuthorizationCodeDone(c) ==
  /\ pc[c] = "createAuthorizationCode"
  /\ authCodes' = authCodes \cup
       {[code |-> SecureToken(call[c].id), expiresAt |-> now + AUTH_CODE_EXPIRY]}
  /\ Finish(c, Res("code", [code |-> SecureToken(call[c].id),
                            request |-> call[c].session.pendingAuthRequest]))
  /\ UNCHANGED <<sessions, now, sessionFrame>>

\* Time passes.
SessionTick ==
  /\ now < MaxNow
  /\ now' = now + TickMs
  /\ UNCHANGED <<pc, call, result, calls, authCodes, sessions, sessionFrame>>

\* Logins, authorization requests and approvals of one browser.
NextSession ==
  \/ \E c \in Callers, token \in BOOLEAN : SessionRequest(c, "POST /login", token)
  \/ \E c \in Callers,
        o \in {"GET /oauth/authorize", "POST /oauth/approve"} :
       SessionRequest(c, o, FALSE)
  \/ \E c \in Callers :
       \/ RouteSessionDone(c)
       \/ AuthenticateGetDone(c) \/ AuthenticateSetDone(c)
       \/ StoreGetDone(c) \/ StoreSetDone(c) \/ AuthorizeRedirect(c)
       \/ ApproveIsAuthenticated(c)
       \/ ConsumeGetDone(c) \/ ConsumeSetDone(c)
       \/ CreateAuthorizationCodeDone(c)
  \/ SessionTick

SpecSession == InitSession /\ [][NextSession]_vars

\* ---- the claims ----

InLog(k, log) == \E j \in 1..Len(log) : log[j] = k

\* C1 (single-flight refresh): the calls that overlap one refresh of an
\* existing working copy share one fetch, one hard reset and one clean: no
\* burst of calls issues any of the three more than once.
C1_SingleFlightRefresh ==
  flight.fetch <= 1 /\ flight.reset <= 1 /\ flight.clean <= 1

\* C2 (cold-start single-flight): the calls issued while the working copy is
\* absent share one clone: a burst that began with no working copy issues
\* the clone once.
C2_ColdStartCloneOnce ==
  flight.cold => flight.clone <= 1

\* C3 (serialized mutation): at no point are two commitAndPush sequences
\* (stage, status, commit, push with retry) in progress at the same time.
C3_SerializedCommitAndPush ==
  Cardinality({c \in Callers : pc[c] \in CommitPushPcs}) <= 1

\* C4 (one mutation per commit): every commit that is created changes only
\* the paths of the mutation whose commitAndPush created it.
C4_CommitOfOneMutation ==
  /\ \A i \in 1..Len(ahead) : ahead[i].paths \subseteq ahead[i].target
  /\ \A i \in 1..Len(remoteLog) : remoteLog[i].paths \subseteq remoteLog[i].target

\* C5 (carry-forward after push failure): a commit whose mutation ended in
\* the push failure stays on the local branch until it is pushed; no step (in
\* particular not the refresh of the next call) discards it.
C5_CarryForward ==
  [][\A i \in 1..Len(ahead) :
       ahead[i].failed => InLog(ahead[i], ahead') \/ InLog(ahead[i], remoteLog')]_vars

\* C8 (no-op commit idempotence): a writeFile whose content equals the
\* file's current content creates no commit and issues no push.
C8_NoOpWriteNoCommit ==
  \A c \in Callers :
    call[c].noop => ~call[c].committed /\ call[c].tries = 0

\* C6 (push retry, success): when a push of a mutation is accepted after k
\* failed ones, k < 3, the call returns success on that push (k + 1 pushes,
\* at most 3) and the remote contains the commit of the mutation.
C6_PushRetrySuccess ==
  [][\A c \in Callers :
       (pc[c] = "push" /\ pc'[c] = "idle" /\ result'[c].kind = "ok") =>
          /\ call[c].tries <= call[c].attempt
          /\ call[c].attempt <= MaxAttempts
          /\ call[c].committed =>
               \E j \in 1..Len(remoteLog') : remoteLog'[j].by = call[c].id]_vars

\* C7 (push retry, exhaustion): a push sequence makes at most 3 attempts; it
\* ends in success only by an accepted push, and otherwise ends after exactly
\* 3 attempts with the push failure given to the caller, by a step that
\* changes nothing of the working copy, the index, the local commits or the
\* remote (no rollback) and leaves the caller free for its next call.
C7_PushRetryExhaustion ==
  /\ [](\A c \in Callers :
          pc[c] \in PushPcs =>
            call[c].attempt \in 1..MaxAttempts /\ call[c].tries <= call[c].attempt)
  /\ [][\A c \in Callers :
          (pc[c] \in PushPcs /\ pc'[c] \notin PushPcs) =>
             /\ pc'[c] = "idle"
             /\ \/ /\ result'[c].kind = "ok"
                   /\ pc[c] = "push"
                   /\ remoteLog' = remoteLog \o ahead
                \/ /\ result'[c].kind = "PushFailure"
                   /\ call[c].attempt = MaxAttempts
                   /\ Len(ahead') = Len(ahead)
                   /\ \A i \in 1..Len(ahead) : ahead'[i].tree = ahead[i].tree
                   /\ UNCHANGED <<vaultExists, isRepo, work, index, base,
                                  originVer, remoteLog>>]_vars

\* A call has given up after the third attempt and its commit is still on
\* the local branch.
C7_Witness ==
  \E c \in Callers :
    /\ result[c].kind = "PushFailure"
    /\ \E i \in 1..Len(ahead) : ahead[i].failed

C11_PushOrder ==
  \A i \in 1..Len(remoteLog) : \A j \in 1..Len(remoteLog) :
    i < j => remoteLog[j].by \notin remoteLog[i].before


\* The pcs of a write-shaped method before its filesystem change is done.
BeforeFsChange == {"mkdir", "write", "stats", "stat", "unlink", "mvmkdir", "rename"}

\* C12 (filesystem change first): the commitAndPush of a writeFile,
\* deleteFile or moveFile call begins with the step that completes the call's
\* own write, unlink or rename, and begins at its git add; before that step
\* the call has staged, committed and pushed nothing.
C12_CommitAfterFsChange ==
  /\ [](\A c \in Callers :
          pc[c] \in BeforeFsChange =>
            /\ call[c].tries = 0 /\ ~call[c].committed
            /\ \A i \in 1..Len(ahead) : ahead[i].by # call[c].id
            /\ \A i \in 1..Len(remoteLog) : remoteLog[i].by # call[c].id)
  /\ [][\A c \in Callers :
          (pc[c] \notin CommitPushPcs /\ pc'[c] \in CommitPushPcs) =>
             /\ pc'[c] = "add"
             /\ \/ /\ pc[c] = "write"
                   /\ work'[call[c].path] = call[c].val
                \/ /\ pc[c] = "unlink"
                   /\ work[call[c].path] # Absent
                   /\ work'[call[c].path] = Absent
                \/ /\ pc[c] = "rename"
                   /\ work[call[c].path] # Absent
                   /\ work'[call[c].dest] = work[call[c].path]
                   /\ work'[call[c].path] = Absent]_vars

\* A moveFile call is pushing its commit with the file at the destination.
C12_Witness ==
  \E c \in Callers :
    /\ call[c].op = "moveFile" /\ pc[c] = "push" /\ call[c].committed
    /\ work[call[c].path] = Absent /\ work[call[c].dest] # Absent

\* C17 (all-or-nothing mutation): a moveFile call that ends with an error
\* after its rename leaves the file at exactly one of source and destination,
\* and every commit of a moveFile call has the file at the destination only.
C17_MoveAllOrNothing ==
  /\ [](\A i \in 1..Len(ahead) :
          Cardinality(ahead[i].target) = 2 =>
            Cardinality({p \in ahead[i].target : ahead[i].tree[p] # Absent}) = 1)
  /\ [][\A c \in Callers :
          (call[c].op = "moveFile" /\ pc[c] \in CommitPushPcs /\ pc'[c] = "idle"
             /\ result'[c].kind # "ok") =>
            Cardinality({p \in Affected(c) : work'[p] # Absent}) = 1]_vars

\* C18 (deleteFile on a directory): the stat that finds a directory ends the
\* call with an error and changes nothing, and a deleteFile call on the
\* directory never unlinks, stages, commits or pushes.
C18_DeleteDirectoryFails ==
  /\ [](\A c \in Callers :
          (call[c].op \in {"deleteFile", "getFileStats"} /\ call[c].path = DirPath) =>
            /\ pc[c] \notin {"unlink"} \cup CommitPushPcs
            /\ call[c].tries = 0 /\ ~call[c].committed)
  /\ [][\A c \in Callers :
          (pc[c] = "stat" /\ pc'[c] # "stat" /\ vaultExists
             /\ work[call[c].path] = Dir) =>
            /\ pc'[c] = "idle"
            /\ result'[c].kind = "IsDirectory"
            /\ UNCHANGED <<repoVars, remoteLog>>]_vars

\* A deleteFile on the directory has failed and the directory is there.
C18_Witness ==
  \E c \in Callers : result[c].kind = "IsDirectory" /\ work[DirPath] = Dir

\* C19 (createDirectory and its placeholder): no step of createDirectory
\* adds a commit or pushes; when the create-directory tool ends with success
\* the remote branch has the placeholder file; and a checkout of a tree with
\* the placeholder has the directory.
C19_DirectoryPlaceholder ==
  /\ [][\A c \in Callers :
          (call[c].op = "createDirectory" /\ pc'[c] # pc[c]) =>
            /\ Len(ahead') <= Len(ahead) /\ remoteLog' = remoteLog
            /\ pc'[c] \notin CommitPushPcs]_vars
  /\ [][\A c \in Callers :
          (call[c].tool /\ pc[c] # "idle" /\ pc'[c] = "idle"
             /\ result'[c].kind = "ok") =>
            RemoteTree'[KeepPath] # Absent]_vars
  /\ [](\A c \in Callers :
          (pc[c] \in {"config", "mkdir", "read", "stats", "stat", "mvmkdir", "mkdirp"}
             /\ RepoOK /\ index[KeepPath] # Absent /\ work[KeepPath] # Absent) =>
            work[DirPath] = Dir)


\* C13 (bounded fetch): a call whose sync is at its fetch eventually leaves
\* initialize(), with the method body running or with a failure.
C13_BoundedFetch ==
  \A c \in Callers : (pc[c] = "fetch") ~> (pc[c] \notin InitPcs)

\* C14 (transient sync failure invisible): a call whose sync went to recovery
\* ends in initialize() with an error only by the failure of its recovery
\* clone; otherwise its method body runs.
C14_RecoveryInvisible ==
  [][\A c \in Callers :
       (call[c].recovering /\ pc[c] \in InitPcs /\ pc'[c] \notin InitPcs) =>
          \/ pc'[c] = BodyPc(call[c].op)
          \/ pc[c] = "clone"]_vars

\* C15 (usable after SyncFailure): the step that fails a call with
\* SyncFailure changes nothing of the working copy and leaves nothing of the
\* call; the next call of the caller starts an attempt of its own (clone
\* when there is no working copy, sync otherwise) with no memory of the
\* failure; and a clone into the missing directory can succeed.
C15_UsableAfterSyncFailure ==
  /\ [](\A c \in Callers :
          (pc[c] = "clone" /\ ~vaultExists) => ENABLED CloneOk(c))
  /\ [][\A c \in Callers :
          /\ (pc[c] \in InitPcs /\ pc'[c] = "idle") =>
                /\ result'[c].kind = "SyncFailure"
                /\ call'[c] = NoCall
                /\ UNCHANGED repoVars
          /\ (result[c].kind = "SyncFailure" /\ pc[c] = "idle" /\ pc'[c] # "idle") =>
                /\ pc'[c] = (IF vaultExists THEN "setUrl" ELSE "clone")
                /\ ~call'[c].recovering
                /\ UNCHANGED repoVars]_vars

\* The recovery clone of a caller's call failed, and the caller's next call
\* has cloned the working copy anew.
C15_Witness ==
  \E c \in Callers :
    /\ result[c] = Res("SyncFailure", 1)
    /\ pc[c] = "config" /\ ~call[c].recovering
    /\ RepoOK /\ work = Checkout(RemoteTree)


\* C16 (path containment): no call whose path resolves outside the
\* working-copy root gets as far as initialize() or a read, and every path
\* that a call has read is inside the root.
C16_PathContainment ==
  \A c \in Callers :
    /\ pc[c] \in {"initialize", "readFile"} =>
         InsideRoot(Join(VaultPath, call[c].path))
    /\ result[c].kind \in {"ok", "ReadError"} => InsideRoot(result[c].val)


\* C20 (listFiles filter): every path that listFiles returns has no segment
\* .git or .obsidian; is a directory only when includeDirectories is set;
\* is, when fileTypes is not empty, a directory or a file with one of those
\* extensions; and is, with recursive = false, a direct child of the listed
\* directory.
C20_ListFilesFilter ==
  [][\A c \in Callers :
       (pc[c] = "walk" /\ pc'[c] = "idle" /\ result'[c].kind = "ok") =>
         \A f \in result'[c].val :
           /\ \A i \in 1..Len(f) : f[i] \notin {".git", ".obsidian"}
           /\ IsDirectory(work, f) => call[c].options.includeDirectories
           /\ (Len(call[c].options.fileTypes) > 0 /\ ~IsDirectory(work, f)) =>
                InList(ExtName(f[Len(f)]), call[c].options.fileTypes)
           /\ call[c].options.recursive = "false" =>
                Len(f) = Len(call[c].path) + 1]_vars


\* C27 (refresh mutual exclusion): at most one caller is in a refresh
\* activity (clone, fetch/reset/clean, or the removal and re-clone of
\* recovery).
C27_RefreshMutualExclusion ==
  Cardinality({c \in Callers : pc[c] \in InitPcs}) <= 1

\* C28 (refresh lifecycle): every call, whatever the outcome of the calls
\* before it, begins with a refresh of its own, started anew (at the clone
\* or at the set-url of the sync, with nothing of an earlier refresh kept);
\* and the refresh of a call settles once: a call that has left initialize()
\* does not enter it again.
C28_RefreshNotReused ==
  [][\A c \in Callers :
       /\ (pc[c] = "idle" /\ pc'[c] # "idle") =>
             /\ pc'[c] \in {"setUrl", "clone"}
             /\ ~call'[c].recovering
             /\ call'[c].id = calls'
             /\ result'[c] = result[c]
       /\ (pc[c] \notin InitPcs \cup {"idle"}) => pc'[c] \notin InitPcs]_vars

\* A call of a caller has ended well and the caller's next call is fetching.
C28_Witness ==
  \E c \in Callers :
    result[c].kind = "ok" /\ pc[c] = "fetch" /\ call[c].id = MaxCalls

\* C29 (dispatch and step order): a call starts with the clone when there is
\* no working copy and with the sync otherwise; a call that started with the
\* clone never fetches; the sync runs set-url, fetch, reset, clean in this
\* order, each left only for the next step or for recovery; and the method
\* body begins only by the step that completes the clean or the clone's
\* configuration.
C29_DispatchAndOrder ==
  [][\A c \in Callers :
       /\ (pc[c] = "idle" /\ pc'[c] # "idle") =>
             pc'[c] = (IF vaultExists THEN "setUrl" ELSE "clone")
       /\ (pc[c] = "setUrl" /\ pc'[c] # "setUrl") => pc'[c] \in {"fetch", "rm", "clone"}
       /\ (pc[c] = "fetch" /\ pc'[c] # "fetch") => pc'[c] \in {"reset", "rm", "clone"}
       /\ (pc[c] = "reset" /\ pc'[c] # "reset") => pc'[c] \in {"clean", "rm", "clone"}
       /\ (pc[c] = "clean" /\ pc'[c] # "clean") =>
             pc'[c] \in {BodyPc(call[c].op), "rm", "clone"}
       /\ (pc[c] = "rm" /\ pc'[c] # "rm") => pc'[c] = "clone"
       /\ (pc[c] = "clone" /\ pc'[c] # "clone") => pc'[c] \in {"config", "idle"}
       /\ (pc[c] = "config" /\ pc'[c] # "config") =>
             pc'[c] \in {BodyPc(call[c].op), "idle"}
       /\ (pc[c] \in InitPcs /\ pc'[c] \in {"read", "mkdir"}) =>
             /\ pc[c] \in {"clean", "config"}
             /\ UNCHANGED <<vaultExists, isRepo, index, ahead, base, originVer>>
             /\ \A p \in AllPaths : work'[p] # work[p] => index[p] = Absent]_vars

\* A call is in its method body after a sync that went through fetch, reset
\* and clean, on the tree that its fetch saw.
C29_Witness ==
  \E c \in Callers :
    /\ pc[c] \in {"read", "mkdir"} /\ ~call[c].recovering
    /\ flight.fetch >= 1 /\ flight.reset >= 1 /\ flight.clean >= 1
    /\ originVer > 0 /\ work = TreeAt(originVer)

\* C30 (recovery waits for pushes): the removal of the working copy by a
\* recovery never happens while the commitAndPush of another call is in
\* progress.
C30_RecoveryWaitsForPush ==
  [][\A c \in Callers :
       (pc[c] = "rm" /\ pc'[c] # "rm") =>
          \A d \in Callers \ {c} : pc[d] \notin CommitPushPcs]_vars


\* C21 (POST /mcp needs a valid token): mcpHandler runs only for a request
\* whose Authorization header is 'Bearer <token>' with a token that was in
\* the store and not expired when the request arrived; and a request that
\* arrived without such a header or token ends with 401, never another
\* answer.
C21_McpNeedsValidToken ==
  [][\A c \in Callers :
       /\ pc'[c] = "mcpHandler" => call'[c].valid
       /\ (pc[c] \in {"POST /mcp", "validateAccessToken", "deleteAccessToken"}
           /\ ~call[c].valid /\ pc'[c] # pc[c]) =>
             \/ pc'[c] \in {"validateAccessToken", "deleteAccessToken"}
             \/ pc'[c] = "idle" /\ result'[c].kind = "401"]_vars

\* A request with the Bearer token of the start, by now expired, is about
\* to be refused, after another request with the same token was handled.
C21_Witness ==
  \E c \in Callers, d \in Callers :
    /\ pc[c] = "deleteAccessToken" /\ call[c].header.token = 1
    /\ ~call[c].valid /\ now > ACCESS_TOKEN_EXPIRY
    /\ result[d].kind = "200" /\ "jsonrpc" \in DOMAIN result[d].val

\* C22 (authorization codes are single-use): no two exchanges return a token
\* pair for the same authorization code.
C22_CodeSingleUse ==
  \A c \in Callers, d \in Callers :
    (c # d /\ result[c].kind = "tokens" /\ result[d].kind = "tokens")
      => result[c].val.code # result[d].val.code

\* C25 (GET /mcp): every answer to GET /mcp is 200 with the guidance body.
C25_GetMcpGuidance ==
  [][\A c \in Callers :
       (pc[c] = "GET /mcp" /\ pc'[c] = "idle") =>
          result'[c] = Res("200", [status |-> "ok",
                                   message |-> "MCP endpoint is POST /mcp",
                                   auth |-> "Bearer token required"])]_vars


\* C24 (cache cleanup on the first invocation): from the first invocation
\* on, cleanupOldCache() has been called exactly once.
C24_CleanupOnFirstInvocation ==
  calls >= 1 => cleanups = 1


\* C23 (create-note without overwrite): when fileExists finds the file and
\* overwrite is not set, the call fails and changes neither the working
\* copy nor the index nor any branch; and of the create-note calls without
\* overwrite on one path, at most one returns success.
C23_CreateNoteOnce ==
  /\ [][\A c \in Callers :
          (pc[c] = "exists" /\ pc'[c] # "exists" /\ ~call[c].overwrite
           /\ vaultExists /\ work[call[c].path] # Absent) =>
             /\ pc'[c] = "idle" /\ result'[c].kind = "AlreadyExists"
             /\ UNCHANGED <<repoVars, remoteLog>>]_vars
  /\ [](\A c \in Callers, d \in Callers :
          (c # d /\ result[c].kind = "ok" /\ result[d].kind = "ok"
           /\ ~result[c].val.overwrite /\ ~result[d].val.overwrite)
            => result[c].val.path # result[d].val.path)


\* C26 (rename-tag dry run): a dry run never calls writeFile and its steps
\* leave the notes as they are; and a dry run that ran on undisturbed notes
\* reports the files_affected and total_replacements that the run without
\* dry_run, started on the same notes with the same case_sensitive, reports.
C26_DryRunSameReport ==
  /\ [][\A c \in Callers :
          (pc[c] # "idle" /\ call[c].dryRun) =>
             /\ pc'[c] # "writeFile"
             /\ pc'[c] # pc[c] => work' = work]_vars
  /\ [](\A c \in Callers, d \in Callers :
          (/\ result[c].kind = "ok" /\ result[d].kind = "ok"
           /\ result[c].val.dry_run /\ ~result[d].val.dry_run
           /\ result[c].val.caseSensitive = result[d].val.caseSensitive
           /\ result[c].val.start = result[d].val.start
           /\ result[c].val.end = result[c].val.start)
            => /\ result[c].val.files_affected = result[d].val.files_affected
               /\ result[c].val.total_replacements
                    = result[d].val.total_replacements)

\* A dry run and then a run without dry_run, both on the same notes, report
\* the same two files and three replacements; the second has changed the
\* notes.
C26_Witness ==
  /\ result[1].kind = "ok" /\ result[2].kind = "ok"
  /\ result[1].val.dry_run /\ ~result[2].val.dry_run
  /\ result[1].val.start = result[2].val.start
  /\ result[1].val.end = result[1].val.start
  /\ Len(result[1].val.files_affected) = 2
  /\ result[1].val.files_affected = result[2].val.files_affected
  /\ result[1].val.total_replacements = 3
  /\ result[2].val.total_replacements = 3
  /\ work # result[2].val.start


\* C31 (a successful write is not lost): a writeFile that changed the file
\* and returns success has its content in a commit of its own on the
\* remote.
C31_SuccessfulWritePushed ==
  [][\A c \in Callers :
       (/\ pc[c] # "idle" /\ pc'[c] = "idle" /\ result'[c].kind = "ok"
        /\ call[c].op = "writeFile" /\ ~call[c].noop) =>
          \E i \in 1..Len(remoteLog') :
            /\ remoteLog'[i].by = call[c].id
            /\ remoteLog'[i].tree[call[c].path] = call[c].val]_vars

\* C32 (no torn read): when nothing but readFile calls has run and no other
\* device has pushed, a readFile of a file of the remote branch that got as
\* far as reading ends with the content of that file.
C32_NoTornRead ==
  [][\A c \in Callers :
       (/\ pc[c] = "read" /\ pc'[c] = "idle"
        /\ externals = 0 /\ RemoteTree[call[c].path] # Absent
        /\ \A d \in Callers \ {c} :
             IF pc[d] = "idle" THEN calls = 1 ELSE call[d].op = "readFile") =>
          result'[c] = Res("ok", RemoteTree[call[c].path])]_vars

\* C33 (set-url before every push): in the push sequence of a call, a push
\* is issued only by the step in which the set-url of the same attempt
\* succeeds, in a repository; a push is answered before anything else of the
\* sequence happens, and the next attempt starts again with the set-url.
\* Every set-url and every clone writes the one authenticated URL.
C33_SetUrlBeforePush ==
  [][\A c \in Callers :
       /\ (pc'[c] = "push" /\ pc[c] # "push") =>
             /\ pc[c] = "pushUrl" /\ RepoOK
             /\ call'[c].attempt = call[c].attempt
             /\ call'[c].tries = call[c].tries + 1
       /\ (pc[c] = "push" /\ pc'[c] # "push") => pc'[c] \in {"idle", "backoff"}
       /\ (pc[c] = "backoff" /\ pc'[c] # "backoff") =>
             /\ pc'[c] = "pushUrl"
             /\ call'[c].attempt = call[c].attempt + 1]_vars

\* A call is pushing for the third time, after the set-url of each attempt.
C33_Witness ==
  \E c \in Callers :
    pc[c] = "push" /\ call[c].attempt = MaxAttempts /\ call[c].tries = MaxAttempts

\* C34 (backoff schedule): the wait after the failed attempt n < 3 is
\* 2^n * 1000 ms, that is 2000 ms and then 4000 ms, each longer than the one
\* before; the failure of attempt 3 ends the call at once, with no wait.
C34_BackoffSchedule ==
  /\ [](\A c \in Callers :
          pc[c] = "backoff" =>
            /\ call[c].attempt \in 1..(MaxAttempts - 1)
            /\ call[c].delay = (2 ^ call[c].attempt) * 1000
            /\ call[c].delay = (IF call[c].attempt = 1 THEN 2000 ELSE 4000))
  /\ [][\A c \in Callers :
          /\ (pc'[c] = "backoff" /\ pc[c] # "backoff") =>
                call'[c].delay > call[c].delay
          /\ (pc[c] \in {"pushUrl", "push"} /\ call[c].attempt = MaxAttempts
              /\ pc'[c] # pc[c]) => pc'[c] \in {"push", "idle"}]_vars

\* A call waits 4000 ms after its second failed attempt.
C34_Witness ==
  \E c \in Callers :
    pc[c] = "backoff" /\ call[c].attempt = 2 /\ call[c].delay = 4000


\* C35 (move-note with overwrite is not destructive on failure): when the
\* only move-note call made so far, with overwrite set, ends in failure, the
\* destination holds on the remote what it held before the call, and so does
\* the working copy where there is one.
C35_FailedMoveKeepsDestination ==
  [][\A c \in Callers :
       (/\ call[c].move /\ call[c].overwrite /\ calls = 1
        /\ pc[c] # "idle" /\ pc'[c] = "idle" /\ result'[c].kind # "ok") =>
          /\ RemoteTree'[call[c].dest] = InitTree[call[c].dest]
          /\ (RepoOK' /\ ahead' = <<>>) =>
                work'[call[c].dest] = InitTree[call[c].dest]]_vars


\* C39 (a failed exchange issues and consumes nothing): an exchange that
\* returns null without a deletion leaves the codes and the tokens of the
\* store as they are; the code is deleted only by an exchange whose client
\* id, redirect URI and verifier are right, or by one that found it expired;
\* only an exchange with the three right stores a token.
C39_FailedExchangeFrame ==
  [][/\ \A c \in Callers :
          /\ (/\ pc[c] \in {"exchangeCodeForToken", "getAuthCode"}
              /\ pc'[c] = "idle") =>
                /\ result'[c] = Res("null", call[c].code)
                /\ authCodes' = authCodes
                /\ accessTokens' = accessTokens
                /\ refreshTokens' = refreshTokens
          /\ (pc[c] = "getAuthCode" /\ pc'[c] = "deleteExpired") =>
                \E a \in GetAuthCode(call[c].code) : now > a.expiresAt
          /\ pc'[c] \in {"deleteAuthCode", "setAccessToken"} =>
                /\ call'[c].clientId /\ call'[c].redirectUri
                /\ call'[c].codeVerifier
     /\ authCodes' # authCodes =>
          \E c \in Callers : pc[c] \in {"deleteExpired", "deleteAuthCode"}
     /\ (accessTokens' # accessTokens \/ refreshTokens' # refreshTokens) =>
          \E c \in Callers :
            pc[c] \in {"setAccessToken", "deleteAccessToken", "revokeDelete"}
    ]_vars

\* An exchange of the stored code with a wrong parameter has returned null,
\* the code is still stored, and a later exchange of it is under way.
C39_Witness ==
  \E c \in Callers, d \in Callers :
    /\ result[c].kind = "null" /\ result[c].val = 1
    /\ GetAuthCode(1) # {}
    /\ pc[d] = "deleteAuthCode" /\ call[d].code = 1


\* C36 (refresh-token rotation): of the refreshAccessToken calls made with
\* one refresh token, at most one returns a token pair.
C36_RefreshTokenUsedOnce ==
  \A c \in Callers, d \in Callers :
    (/\ c # d
     /\ result[c].kind = "tokens" /\ "presented" \in DOMAIN result[c].val
     /\ result[d].kind = "tokens" /\ "presented" \in DOMAIN result[d].val)
      => result[c].val.presented # result[d].val.presented


\* C37 (link between access and refresh tokens): when no request is under
\* way, every refresh-token entry points to a stored access token that names
\* it, and every stored access token has the entry of its refresh token,
\* pointing back to it; a deleteAccessToken that found the token goes on to
\* delete its refresh token, and returns with both gone.
C37_TokenLink ==
  /\ []((\A c \in Callers : pc[c] = "idle") =>
          /\ \A r \in refreshTokens :
               \E t \in GetAccessToken(r.accessToken) :
                 t.refreshToken = r.refreshToken
          /\ \A t \in accessTokens :
               \E r \in GetRefreshToken(t.refreshToken) :
                 r.accessToken = t.token)
  /\ [][\A c \in Callers :
          /\ (/\ pc[c] \in {"deleteAccessToken", "revokeDelete", "refreshDelete"}
              /\ pc'[c] # pc[c] /\ GetAccessToken(DeletedToken(c)) # {}) =>
                /\ pc'[c] = "deleteRefreshToken"
                /\ \E t \in GetAccessToken(DeletedToken(c)) :
                     call'[c].attributes = t.refreshToken
          /\ (pc[c] = "deleteRefreshToken" /\ pc'[c] # pc[c]) =>
                /\ \A t \in accessTokens' : t.token # DeletedToken(c)
                /\ \A r \in refreshTokens' :
                     r.refreshToken # call[c].attributes]_vars

\* No request is under way after a refresh that returned a pair and a
\* revocation that returned true.
C37_Witness ==
  /\ \A c \in Callers : pc[c] = "idle"
  /\ \E c \in Callers, d \in Callers :
       result[c].kind = "tokens" /\ result[d].kind = "true"

\* An access token that was issued and is gone from the store, with no
\* setAccessToken for it to come.
Dead(t) ==
  /\ GetAccessToken(t) = {}
  /\ \/ t = 1
     \/ \E i \in 1..calls :
          /\ t = SecureToken(i)
          /\ ~\E c \in Callers :
                pc[c] \notin {"idle", "setRefreshToken"} /\ call[c].id = i

\* C40 (validation): validateAccessToken returns true only for a token that
\* is stored and not past its expiry, which is one hour after its issue; a
\* token is gone when its revocation returns true, when the refresh of its
\* refresh token returns a pair, and when its validation has deleted it; a
\* token that is gone stays gone and is refused by every validation.
C40_ValidateAccessToken ==
  [][\A c \in Callers :
       /\ (pc[c] = "validateAccessToken" /\ pc'[c] = "mcpHandler") =>
             \E t \in GetAccessToken(call[c].header.token) :
               ~(now > t.expiresAt)
       /\ (pc[c] = "putItem" /\ pc'[c] # pc[c]) =>
             \E t \in accessTokens' :
               /\ t.token = call[c].accessToken
               /\ t.expiresAt = call[c].createdAt + 3600000
       /\ (/\ pc[c] # "idle" /\ pc'[c] = "idle"
           /\ call[c].op = "revokeToken" /\ result'[c].kind = "true") =>
             \A t \in accessTokens' : t.token # call[c].header.token
       /\ (/\ pc[c] # "idle" /\ pc'[c] = "idle"
           /\ call[c].op = "refreshAccessToken" /\ result'[c].kind = "tokens") =>
             \A t \in accessTokens' : t.token # call[c].oldToken
       /\ (/\ pc[c] \in {"deleteAccessToken", "deleteRefreshToken"}
           /\ pc'[c] = "idle" /\ call[c].op = "POST /mcp") =>
             \A t \in accessTokens' : t.token # call[c].header.token
       /\ \A t \in {1} \cup {SecureToken(i) : i \in 1..MaxRequests} :
             Dead(t) => Dead(t)'
       /\ (/\ pc[c] = "validateAccessToken" /\ pc'[c] # pc[c]
           /\ Dead(call[c].header.token)) =>
             pc'[c] = "idle" /\ result'[c].kind = "401"]_vars

\* The token of the start has been rotated by a refresh and is presented to a
\* validation.
C40_Witness ==
  \E c \in Callers, d \in Callers :
    /\ pc[c] = "validateAccessToken" /\ call[c].header.token = 1
    /\ Dead(1)
    /\ result[d].kind = "tokens" /\ result[d].val.presented = 1


\* C38 (one code per pending request): no two approvals are answered with a
\* code for the same pending authorization request.
C38_OneCodePerPendingRequest ==
  \A c \in Callers, d \in Callers :
    (c # d /\ result[c].kind = "code" /\ result[d].kind = "code")
      => result[c].val.request # result[d].val.request

=============================================================================
